---- MODULE Spec2Model ----
(***************************************************************************)
(* Model of the policy query system: policy_server/server.py (document     *)
(* loading, the rule index, keyword search, rule lookup and conflict       *)
(* lookup).  Python strings are TLA+ strings; a Python dict is a sequence  *)
(* of entries in insertion order; a Python list is a sequence.             *)
(***************************************************************************)
EXTENDS Integers, Sequences, FiniteSets, TLC

VARIABLES
    DOCUMENTS,      \* server.DOCUMENTS: dict doc_name -> text
    CONFLICTS,      \* server.CONFLICTS: the loaded conflict registry
    RULE_INDEX,     \* server.RULE_INDEX: dict rule_id -> rule record
    policy_search,  \* the PolicySearch object: <<>> (None) or <<[documents, conflicts]>>
    pc,             \* "idle", or "called" while a method call is running
    call,           \* the current or last PolicySearch method call and its arguments
    ret,            \* the value the last completed call returned
    build,          \* a build_rule_index run that other threads can interleave
                    \* with: <<>> (none) or <<[old, todo]>>
    QUERY_CACHE,    \* app.QUERY_CACHE: dict cache key -> cached answer
    cache_hits,     \* app.cache_hits
    cache_misses,   \* app.cache_misses
    CONVERSATIONS,  \* app.CONVERSATIONS: dict session_id -> list of messages
    now,            \* the clock read by datetime.now(), in hours
    request         \* the frame of the HTTP request being handled: <<>> (none)
                    \* or <<[endpoint, ...locals of the handler]>>

\* The state of the web application (webapp/app.py)
web == <<QUERY_CACHE, cache_hits, cache_misses, CONVERSATIONS, now, request>>

vars == <<DOCUMENTS, CONFLICTS, RULE_INDEX, policy_search, pc, call, ret, build, web>>

\* The module globals of webapp/app.py after import
WebStart ==
    /\ QUERY_CACHE = <<>>
    /\ cache_hits = 0
    /\ cache_misses = 0
    /\ CONVERSATIONS = <<>>
    /\ now = 0
    /\ request = <<>>

----------------------------------------------------------------------------
(* Bounds of the model.                                                    *)

\* max_results ranges over -1 .. MaxLimit
MaxLimit == 3

----------------------------------------------------------------------------
(* Python str operations.                                                  *)

\* The character s[i-1] as a one-character string ("" outside the string)
Ch(s, i) == IF i \in 1..Len(s) THEN SubSeq(s, i, i) ELSE ""

UPPER == "ABCDEFGHIJKLMNOPQRSTUVWXYZ"

LOWER == "abcdefghijklmnopqrstuvwxyz"

IsUpper(c) == \E i \in 1..26 : Ch(UPPER, i) = c

lower_char(c) ==
    IF IsUpper(c) THEN Ch(LOWER, CHOOSE i \in 1..26 : Ch(UPPER, i) = c) ELSE c

upper_char(c) ==
    IF \E i \in 1..26 : Ch(LOWER, i) = c
    THEN Ch(UPPER, CHOOSE i \in 1..26 : Ch(LOWER, i) = c) ELSE c

\* s.lower(): every character lowered (computed by halves)
RECURSIVE lower(_)
lower(s) ==
    IF Len(s) <= 1 THEN lower_char(s)
    ELSE lower(SubSeq(s, 1, Len(s) \div 2))
         \o lower(SubSeq(s, Len(s) \div 2 + 1, Len(s)))

\* s.upper()
RECURSIVE upper(_)
upper(s) ==
    IF Len(s) <= 1 THEN upper_char(s)
    ELSE upper(SubSeq(s, 1, Len(s) \div 2))
         \o upper(SubSeq(s, Len(s) \div 2 + 1, Len(s)))

isspace(c) == c \in {" ", "\n", "\t"}

\* s[i:] and s[:i] for 0 <= i <= len(s)
From(s, i) == SubSeq(s, i + 1, Len(s))

Upto(s, i) == SubSeq(s, 1, i)

\* s.startswith(p)
startswith(s, p) == Len(p) <= Len(s) /\ SubSeq(s, 1, Len(p)) = p

\* s.find(p, start): the least index >= start where p occurs, or -1
find(s, p, start) ==
    LET hits == {i \in start..(Len(s) - Len(p)) : SubSeq(s, i + 1, i + Len(p)) = p}
    IN  IF hits = {} THEN -1 ELSE CHOOSE i \in hits : \A j \in hits : i <= j

\* p in s
contains(s, p) == find(s, p, 0) # -1

\* The least index >= start of a character that is (space = TRUE) or is not
\* (space = FALSE) whitespace, or len(s) when there is none
scan_to(s, start, space) ==
    LET hits == {i \in start..(Len(s) - 1) : isspace(Ch(s, i + 1)) = space}
    IN  IF hits = {} THEN Len(s) ELSE CHOOSE i \in hits : \A j \in hits : i <= j

lstrip(s) == From(s, scan_to(s, 0, FALSE))

rstrip(s) ==
    LET keep == {i \in 1..Len(s) : ~isspace(Ch(s, i))}
    IN  IF keep = {} THEN "" ELSE Upto(s, CHOOSE i \in keep : \A j \in keep : j <= i)

strip(s) == rstrip(lstrip(s))

\* s.split() from index i on: skip whitespace, take the run of
\* non-whitespace characters as a word, repeat
RECURSIVE split_from(_, _)
split_from(s, i) ==
    LET start == scan_to(s, i, FALSE)
        end   == scan_to(s, start, TRUE)
    IN  IF start >= Len(s) THEN <<>>
        ELSE <<SubSeq(s, start + 1, end)>> \o split_from(s, end)

split(s) == split_from(s, 0)

\* set(list)
set(xs) == {xs[i] : i \in 1..Len(xs)}

----------------------------------------------------------------------------
(* Python dict operations on a sequence of <<key, value>> entries.         *)

keys(d) == [i \in 1..Len(d) |-> d[i][1]]

has_key(d, k) == \E i \in 1..Len(d) : d[i][1] = k

\* Variant of dict_set: d.setdefault(k, v), an existing key keeps its value
dict_set_default(d, k, v) == IF has_key(d, k) THEN d ELSE Append(d, <<k, v>>)

\* d[k] = v: an existing key keeps its position, a new key is appended
dict_set(d, k, v) ==
    IF has_key(d, k)
    THEN [i \in 1..Len(d) |-> IF d[i][1] = k THEN <<k, v>> ELSE d[i]]
    ELSE Append(d, <<k, v>>)

\* d.get(k) as an Optional: <<>> is None, <<v>> is the value
dict_get(d, k) ==
    IF has_key(d, k) THEN <<d[CHOOSE i \in 1..Len(d) : d[i][1] = k][2]>> ELSE <<>>

----------------------------------------------------------------------------
(* The two regular expressions of build_rule_index.                        *)

RULE_OPEN == "[RULE:"

\* The positions q where the lookahead (?=\[RULE:|$) succeeds: an opening
\* marker follows, or q is the end of the text, or q is just before a final
\* newline ($ without re.MULTILINE).
lookahead_ok(s, q) ==
    \/ startswith(From(s, q), RULE_OPEN)
    \/ q = Len(s)
    \/ q = Len(s) - 1 /\ Ch(s, Len(s)) = "\n"

\* r'\[RULE:([^\]]+)\](.*?)(?=\[RULE:|$)' with re.DOTALL tried at position p:
\* <<>> when it does not match there, else <<[id, body, block, end]>>.
rule_match_at(s, p) ==
    LET close == find(s, "]", p + Len(RULE_OPEN))
    IN  IF startswith(From(s, p), RULE_OPEN) /\ close > p + Len(RULE_OPEN)
        THEN LET q == CHOOSE q \in (close + 1)..Len(s) :
                          /\ lookahead_ok(s, q)
                          /\ \A r \in (close + 1)..(q - 1) : ~lookahead_ok(s, r)
             IN  <<[id    |-> SubSeq(s, p + Len(RULE_OPEN) + 1, close),
                    body  |-> SubSeq(s, close + 2, q),
                    block |-> SubSeq(s, p + 1, q),
                    end   |-> q]>>
        ELSE <<>>

\* Variant of finditer: the leftmost match only (re.search)
finditer_first(s, pos) ==
    LET starts == {p \in pos..Len(s) : rule_match_at(s, p) # <<>>}
    IN  IF starts = {} THEN <<>>
        ELSE <<rule_match_at(s, CHOOSE p \in starts : \A r \in starts : p <= r)[1]>>

\* re.finditer(rule_pattern, content, re.DOTALL): the non-overlapping matches
\* from left to right, scanning from position pos
RECURSIVE finditer(_, _)
finditer(s, pos) ==
    LET starts == {p \in pos..Len(s) : rule_match_at(s, p) # <<>>}
    IN  IF starts = {} THEN <<>>
        ELSE LET p == CHOOSE p \in starts : \A r \in starts : p <= r
                 m == rule_match_at(s, p)[1]
             IN  <<m>> \o finditer(s, m.end)

IsTagChar(c) == IsUpper(c) \/ c = "-"

\* r'\[/?[A-Z-]+[^\]]*\]' tried at position p: the end of the match, or -1
tag_match_at(s, p) ==
    LET name == IF Ch(s, p + 2) = "/" THEN p + 2 ELSE p + 1
        close == find(s, "]", name)
    IN  IF /\ p + 1 <= Len(s) /\ Ch(s, p + 1) = "["
           /\ name + 1 <= Len(s) /\ IsTagChar(Ch(s, name + 1))
           /\ close # -1
        THEN close + 1 ELSE -1

\* re.sub(r'\[/?[A-Z-]+[^\]]*\]', '', s) scanning from position p: the text
\* up to the leftmost match is kept, the match dropped, the scan resumed
RECURSIVE sub_tags(_, _)
sub_tags(s, p) ==
    LET starts == {q \in p..(Len(s) - 1) : tag_match_at(s, q) # -1}
    IN  IF starts = {} THEN From(s, p)
        ELSE LET q == CHOOSE q \in starts : \A r \in starts : q <= r
             IN  SubSeq(s, p + 1, q) \o sub_tags(s, tag_match_at(s, q))

clean_content(rule_content) == strip(sub_tags(rule_content, 0))

\* The record build_rule_index stores for one match
rule_record(doc_name, m) ==
    [id         |-> m.id,
     content    |-> clean_content(strip(m.body)),
     document   |-> doc_name,
     full_block |-> m.block]

\* The inner loop of build_rule_index over the matches of one document
RECURSIVE index_matches(_, _, _)
index_matches(index, doc_name, ms) ==
    IF ms = <<>> THEN index
    ELSE index_matches(dict_set(index, ms[1].id, rule_record(doc_name, ms[1])),
                       doc_name, Tail(ms))

\* The outer loop of build_rule_index over self.documents.items()
RECURSIVE build_rule_index(_, _)
build_rule_index(index, documents) ==
    IF documents = <<>> THEN index
    ELSE build_rule_index(
             index_matches(index, documents[1][1], finditer(documents[1][2], 0)),
             Tail(documents))

----------------------------------------------------------------------------
(* PolicySearch.search.                                                     *)

\* The keywords table of search: category -> terms
keywords ==
    << <<"defense",       <<"defense", "dissertation defense">> >>,
       <<"registration",  <<"register", "registration", "enroll">> >>,
       <<"opt",           <<"opt", "optional practical training">> >>,
       <<"prospectus",    <<"prospectus", "proposal">> >>,
       <<"deadline",      <<"deadline", "due">> >>,
       <<"international", <<"international", "f-1", "j-1", "visa">> >> >>

\* if department and not rule_id.startswith(department): continue
department_skips(rule_id, department) ==
    department # "" /\ ~startswith(rule_id, department)

\* Variant of phrase_score: the phrase match weighs no more than one word
phrase_score_as_word(query_lower, content_lower) ==
    IF contains(content_lower, query_lower) THEN 2 ELSE 0

\* Exact phrase match: +10
phrase_score(query_lower, content_lower) ==
    IF contains(content_lower, query_lower) THEN 10 ELSE 0

\* Variant of word_score: query words are counted with their repetitions
word_score_multiset(query_lower, content_lower) ==
    Len(SelectSeq(split(query_lower),
                  LAMBDA w : w \in set(split(content_lower)))) * 2

\* Word matches: len(query_words & content_words) * 2
word_score(query_lower, content_lower) ==
    Cardinality(set(split(query_lower)) \cap set(split(content_lower))) * 2

\* The inner loop over the terms of one category: +3 per term in the content
RECURSIVE term_score(_, _)
term_score(terms, content_lower) ==
    IF terms = <<>> THEN 0
    ELSE (IF contains(content_lower, terms[1]) THEN 3 ELSE 0)
         + term_score(Tail(terms), content_lower)

\* The loop over keywords.items(): categories named in the query
RECURSIVE keyword_score(_, _, _)
keyword_score(table, query_lower, content_lower) ==
    IF table = <<>> THEN 0
    ELSE (IF contains(query_lower, table[1][1])
          THEN term_score(table[1][2], content_lower) ELSE 0)
         + keyword_score(Tail(table), query_lower, content_lower)

\* The relevance score of one rule
score_of(rule_data, query) ==
    LET query_lower   == lower(query)
        content_lower == lower(rule_data.content)
    IN  phrase_score(query_lower, content_lower)
        + word_score(query_lower, content_lower)
        + keyword_score(keywords, query_lower, content_lower)

PREVIEW_LEN == 300

\* Variant of result_entry: a content of exactly PREVIEW_LEN characters gets
\* the ellipsis too
result_entry_at_limit(rule_id, rule_data, score) ==
    [rule_id      |-> rule_id,
     content      |-> IF Len(rule_data.content) >= PREVIEW_LEN
                      THEN Upto(rule_data.content, PREVIEW_LEN) \o "..."
                      ELSE rule_data.content,
     full_content |-> rule_data.content,
     document     |-> rule_data.document,
     score        |-> score]

\* The result entry appended for a rule
result_entry(rule_id, rule_data, score) ==
    [rule_id      |-> rule_id,
     content      |-> IF Len(rule_data.content) > PREVIEW_LEN
                      THEN Upto(rule_data.content, PREVIEW_LEN) \o "..."
                      ELSE rule_data.content,
     full_content |-> rule_data.content,
     document     |-> rule_data.document,
     score        |-> score]

\* if score > 0: results.append(...)
keeps(score) == score > 0

\* The scan over RULE_INDEX.items(): the unsorted results list
RECURSIVE scan(_, _, _)
scan(index, query, department) ==
    IF index = <<>> THEN <<>>
    ELSE LET rule_id   == index[1][1]
             rule_data == index[1][2]
             score     == score_of(rule_data, query)
         IN  (IF ~department_skips(rule_id, department) /\ keeps(score)
              THEN <<result_entry(rule_id, rule_data, score)>> ELSE <<>>)
             \o scan(Tail(index), query, department)

\* Variant of insert_sorted: r goes before the entries of equal score
insert_sorted_unstable(sorted, r) ==
    LET n == Cardinality({i \in 1..Len(sorted) : sorted[i].score > r.score})
    IN  SubSeq(sorted, 1, n) \o <<r>> \o SubSeq(sorted, n + 1, Len(sorted))

\* Insert r into a list sorted by descending score, after every entry whose
\* score is at least r's
insert_sorted(sorted, r) ==
    LET n == Cardinality({i \in 1..Len(sorted) : sorted[i].score >= r.score})
    IN  SubSeq(sorted, 1, n) \o <<r>> \o SubSeq(sorted, n + 1, Len(sorted))

\* results.sort(key=lambda x: x['score'], reverse=True): a stable sort
RECURSIVE sort_by_score(_, _)
sort_by_score(sorted, rest) ==
    IF rest = <<>> THEN sorted
    ELSE sort_by_score(insert_sorted(sorted, rest[1]), Tail(rest))

\* Variant of slice_upto: xs[:k + 1]
slice_upto_inclusive(xs, k) ==
    IF k + 1 >= 0
    THEN SubSeq(xs, 1, IF k + 1 < Len(xs) THEN k + 1 ELSE Len(xs))
    ELSE SubSeq(xs, 1, IF Len(xs) + k + 1 > 0 THEN Len(xs) + k + 1 ELSE 0)

\* xs[:k] for any integer k
slice_upto(xs, k) ==
    IF k >= 0
    THEN SubSeq(xs, 1, IF k < Len(xs) THEN k ELSE Len(xs))
    ELSE SubSeq(xs, 1, IF Len(xs) + k > 0 THEN Len(xs) + k ELSE 0)

search(index, query, department, max_results) ==
    slice_upto(sort_by_score(<<>>, scan(index, query, department)), max_results)

----------------------------------------------------------------------------
(* PolicySearch.get_rule and PolicySearch.check_conflicts.                  *)

get_rule(index, rule_id) == dict_get(index, rule_id)

\* self.conflicts.get('conflicts', [])
conflict_entries(conflicts) ==
    IF has_key(conflicts, "conflicts")
    THEN dict_get(conflicts, "conflicts")[1] ELSE <<>>

\* any(rid in conflict_rule_ids for rid in rule_ids)
conflict_hit(conflict, rule_ids) ==
    \E i \in 1..Len(rule_ids) : \E j \in 1..Len(conflict.rules) :
        rule_ids[i] = conflict.rules[j].rule_id

RECURSIVE conflicts_found(_, _)
conflicts_found(entries, rule_ids) ==
    IF entries = <<>> THEN <<>>
    ELSE (IF conflict_hit(entries[1], rule_ids) THEN <<entries[1]>> ELSE <<>>)
         \o conflicts_found(Tail(entries), rule_ids)

\* The exception raised by conflict['rules'] or r['rule_id'] when the key is
\* missing
KEY_ERROR == [raised |-> "KeyError"]

\* The comprehension [r['rule_id'] for r in conflict['rules']] can be
\* evaluated for the entry
has_rule_ids(conflict) ==
    /\ "rules" \in DOMAIN conflict
    /\ \A j \in 1..Len(conflict.rules) : "rule_id" \in DOMAIN conflict.rules[j]

\* The loop evaluates the comprehension for every entry in turn, so the
\* call raises at the first entry for which it cannot be evaluated
check_conflicts(conflicts, rule_ids) ==
    LET entries == conflict_entries(conflicts)
    IN  IF \E i \in 1..Len(entries) : ~has_rule_ids(entries[i])
        THEN KEY_ERROR
        ELSE conflicts_found(entries, rule_ids)

----------------------------------------------------------------------------
(* The environment: the files under documents/ and the callers' arguments. *)

ABSENT == "<absent>"

GSAS_A ==
    "[RULE:GSAS:DEADLINE-001][TIMING:30 days]Students must register within 30 days of defense.[/RULE]"

GSAS_B ==
    "[RULE:GSAS:DEADLINE-001]Check the international opt deadline.\n[RULE:GSAS:DEFENSE-REG-002]Register for the defense.\n"

ISSO_A ==
    "[RULE:ISSO:OPT-001]international f-1 j-1 visa opt (optional practical training) deadline due\n[RULE:ISSO:VISA-002][SEE-ALSO:GSAS:DEADLINE-001]Register for opt. opt opt\n"

PHD_A ==
    "[RULE:PhD_SEAS:ALGO-PREREQ-001]Students need a theory course.\n[RULE:PhD_SEAS:COURSE-002]Register for the defense.\n"

REGISTRY_A ==
    << <<"conflicts",
         << [id |-> "CONF-1",
             rules |-> <<[rule_id |-> "GSAS:DEADLINE-001"], [rule_id |-> "ISSO:OPT-001"]>>],
            [id |-> "CONF-2",
             rules |-> <<[rule_id |-> "ISSO:OPT-001"], [rule_id |-> "PhD_SEAS:COURSE-002"]>>] >> >>,
       <<"precedence_framework", "ISSO > GSAS > PHD_SEAS">> >>

\* The possible contents of documents/ and conflicts.json
FileSystems ==
    [gsas : {ABSENT, GSAS_A, GSAS_B}, isso : {ABSENT, ISSO_A},
     phd_seas : {ABSENT, PHD_A}, conflicts : {<<>>, REGISTRY_A}]

Queries ==
    {"", "register deadline", "international opt deadline",
     "Register for the defense.", "theory course", "algorithm", "opt opt",
     "DEFENSE"}

Departments == {"", "GSAS", "PhD_SEAS", "phd_seas"}

Limits == (-1)..MaxLimit

RuleIds ==
    {"GSAS:DEADLINE-001", "gsas:deadline-001", "RULE:GSAS:DEADLINE-001",
     "PhD_SEAS:ALGO-PREREQ-001", "phd_seas:algo-prereq-001", "NOPE:X-1"}

RuleIdLists ==
    {<<>>, <<"GSAS:DEADLINE-001">>, <<"gsas:deadline-001">>,
     <<"NOPE:X-1", "ISSO:OPT-001">>, <<"PHD_SEAS:COURSE-002">>}

----------------------------------------------------------------------------
(* The state machine.                                                      *)

Init ==
    /\ DOCUMENTS = <<>>
    /\ CONFLICTS = <<>>
    /\ RULE_INDEX = <<>>
    /\ policy_search = <<>>
    /\ pc = "idle"
    /\ call = [op |-> "none"]
    /\ ret = <<>>
    /\ build = <<>>
    /\ WebStart

\* One iteration of the loop over doc_file: DOCUMENTS[doc_name] = f.read()
load_file(documents, doc_name, text) ==
    IF text # ABSENT THEN dict_set(documents, doc_name, text) ELSE documents

\* load_documents(): reads the files that exist, then the registry if it
\* exists.  Its callers (main, init_mcp_server, the test scripts) run it before
\* they construct the PolicySearch object; init_mcp_server runs it again only
\* after a start that loaded no document.
LoadDocuments ==
    /\ pc = "idle"
    /\ policy_search = <<>>
    /\ DOCUMENTS = <<>>
    /\ \E fs \in FileSystems :
        /\ DOCUMENTS' = load_file(load_file(load_file(DOCUMENTS,
                            "GSAS", fs.gsas), "ISSO", fs.isso), "PHD_SEAS", fs.phd_seas)
        /\ CONFLICTS' = IF fs.conflicts # <<>> THEN fs.conflicts ELSE CONFLICTS
    /\ UNCHANGED <<RULE_INDEX, policy_search, pc, call, ret, build, web>>

\* PolicySearch(DOCUMENTS, conflicts): __init__ runs build_rule_index.  The
\* caller passes the loaded registry (main) or an empty dict (a name bound by
\* "from server import CONFLICTS" before load_documents rebinds the global,
\* or the literal {} of tests/test_search.py).  self.documents is the
\* DOCUMENTS dict itself and is read by build_rule_index only.
NewPolicySearch ==
    /\ pc = "idle"
    /\ \E conflicts \in {CONFLICTS, <<>>} :
        policy_search' = <<[documents |-> DOCUMENTS, conflicts |-> conflicts]>>
    /\ RULE_INDEX' = build_rule_index(RULE_INDEX, DOCUMENTS)
    /\ UNCHANGED <<DOCUMENTS, CONFLICTS, pc, call, ret, build, web>>

\* A caller invokes a method of the PolicySearch object with its arguments
Invoke ==
    /\ pc = "idle"
    /\ policy_search # <<>>
    /\ \/ \E query \in Queries, department \in Departments, max_results \in Limits :
            call' = [op |-> "search", query |-> query,
                     department |-> department, max_results |-> max_results]
       \/ \E rule_id \in RuleIds :
            call' = [op |-> "get_rule", rule_id |-> rule_id]
       \/ \E rule_ids \in RuleIdLists :
            call' = [op |-> "check_conflicts", rule_ids |-> rule_ids]
    /\ pc' = "called"
    /\ ret' = <<>>
    /\ UNCHANGED <<DOCUMENTS, CONFLICTS, RULE_INDEX, policy_search, build, web>>

Search ==
    /\ pc = "called"
    /\ call.op = "search"
    /\ ret' = search(RULE_INDEX, call.query, call.department, call.max_results)
    /\ pc' = "idle"
    /\ UNCHANGED <<DOCUMENTS, CONFLICTS, RULE_INDEX, policy_search, call, build, web>>

GetRule ==
    /\ pc = "called"
    /\ call.op = "get_rule"
    /\ ret' = get_rule(RULE_INDEX, call.rule_id)
    /\ pc' = "idle"
    /\ UNCHANGED <<DOCUMENTS, CONFLICTS, RULE_INDEX, policy_search, call, build, web>>

CheckConflicts ==
    /\ pc = "called"
    /\ call.op = "check_conflicts"
    /\ ret' = check_conflicts(policy_search[1].conflicts, call.rule_ids)
    /\ pc' = "idle"
    /\ UNCHANGED <<DOCUMENTS, CONFLICTS, RULE_INDEX, policy_search, call, build, web>>

Next ==
    \/ LoadDocuments
    \/ NewPolicySearch
    \/ Invoke
    \/ Search
    \/ GetRule
    \/ CheckConflicts

Spec == Init /\ [][Next]_vars

----------------------------------------------------------------------------
(* Vocabulary of the properties, stated without the operators above.       *)

\* The last completed call was a search
Searched == pc = "idle" /\ call.op = "search"

\* p occurs in s as a contiguous substring
IsSubstring(p, s) ==
    \E i \in 1..(Len(s) - Len(p) + 1) : SubSeq(s, i, i + Len(p) - 1) = p

\* The whitespace-separated words of s: the maximal whitespace-free runs
WordsOf(s) ==
    LET starts == {i \in 1..Len(s) :
                      ~isspace(Ch(s, i)) /\ (i = 1 \/ isspace(Ch(s, i - 1)))}
        EndOf(i) == CHOOSE j \in i..Len(s) :
                      /\ \A k \in i..j : ~isspace(Ch(s, k))
                      /\ (j = Len(s) \/ isspace(Ch(s, j + 1)))
    IN  {SubSeq(s, i, EndOf(i)) : i \in starts}

\* The position of a rule id in the index (its encounter order in a scan)
PositionOf(rule_id) == CHOOSE i \in 1..Len(RULE_INDEX) : RULE_INDEX[i][1] = rule_id

\* The rules a search scores above zero after its department filter
Candidates ==
    {i \in 1..Len(RULE_INDEX) :
        /\ ~department_skips(RULE_INDEX[i][1], call.department)
        /\ score_of(RULE_INDEX[i][2], call.query) > 0}

Returned == {PositionOf(ret[i].rule_id) : i \in 1..Len(ret)}

\* No category name of the keywords table occurs in the query
NoCategoryNamed(query) ==
    \A c \in 1..Len(keywords) : ~IsSubstring(keywords[c][1], lower(query))

\* The rules whose lowercased content contains the lowercased query
PhraseRules(query) ==
    {i \in 1..Len(RULE_INDEX) :
        IsSubstring(lower(query), lower(RULE_INDEX[i][2].content))}

----------------------------------------------------------------------------
(* C2: search returns at most maxResults entries, none with score 0.       *)

\* C2 as stated: for every integer max_results the result has at most
\* max_results entries and every entry has a positive score.
C2_Original ==
    Searched =>
        /\ Len(ret) <= call.max_results
        /\ \A i \in 1..Len(ret) : ret[i].score > 0

\* C2 amended: for every max_results >= 0 the result has at most max_results
\* entries, and for every max_results every entry has a positive score.
C2_Bounded ==
    Searched =>
        /\ call.max_results >= 0 => Len(ret) <= call.max_results
        /\ \A i \in 1..Len(ret) : ret[i].score > 0

\* A search that was cut to exactly max_results entries
C2_Witness ==
    /\ Searched
    /\ call.max_results >= 1
    /\ Len(ret) = call.max_results
    /\ Cardinality(Candidates) > call.max_results

----------------------------------------------------------------------------
(* C3: results are in non-increasing score order, ties in encounter order, *)
(* and the limit is applied after sorting.                                 *)

\* C3: scores never increase along the result; two results with equal score
\* are in index order; and every scored rule that was cut off ranks after
\* every returned one (lower score, or equal score and later in the index).
C3_SortedStable ==
    Searched =>
        /\ \A i, j \in 1..Len(ret) :
            i < j =>
                /\ ret[i].score >= ret[j].score
                /\ ret[i].score = ret[j].score =>
                       PositionOf(ret[i].rule_id) < PositionOf(ret[j].rule_id)
        /\ \A c \in Candidates \ Returned : \A i \in 1..Len(ret) :
            LET s == score_of(RULE_INDEX[c][2], call.query)
            IN  \/ s < ret[i].score
                \/ s = ret[i].score /\ PositionOf(ret[i].rule_id) < c

\* A truncated result holding a tie, where a rule scanned earlier than the
\* tied ones ranks after them
C3_Witness ==
    /\ Searched
    /\ Candidates \ Returned # {}
    /\ \E i, j \in 1..Len(ret) : i < j /\ ret[i].score = ret[j].score
    /\ \E i, j \in 1..Len(ret) :
        i < j /\ PositionOf(ret[i].rule_id) > PositionOf(ret[j].rule_id)

----------------------------------------------------------------------------
(* C6: the phrase and word-overlap part of the score.                      *)

\* C6: for every returned rule, the score less its category boost is 10 if
\* the lowercased query is a substring of the lowercased content (else 0)
\* plus 2 for each distinct word the two have in common.
C6_PhraseAndWords ==
    Searched =>
        \A i \in 1..Len(ret) :
            LET q == lower(call.query)
                c == lower(ret[i].full_content)
            IN  ret[i].score - keyword_score(keywords, q, c)
                = (IF IsSubstring(q, c) THEN 10 ELSE 0)
                  + 2 * Cardinality(WordsOf(q) \cap WordsOf(c))

\* A returned rule that holds the phrase, for a query repeating a word that
\* the content repeats too
C6_Witness ==
    /\ Searched
    /\ Len(split(lower(call.query))) > Cardinality(WordsOf(lower(call.query)))
    /\ \E i \in 1..Len(ret) :
        LET c == lower(ret[i].full_content)
        IN  /\ IsSubstring(lower(call.query), c)
            /\ Len(split(c)) > Cardinality(WordsOf(c))
            /\ WordsOf(lower(call.query)) \cap WordsOf(c) # {}

----------------------------------------------------------------------------
(* C9: a query that is a substring of exactly one rule's content.          *)

\* The search was unfiltered with a limit of at least 1, and the query is a
\* substring of the lowercased content of exactly one indexed rule
UniquePhraseSearch ==
    /\ Searched
    /\ call.department = ""
    /\ call.max_results >= 1
    /\ Cardinality(PhraseRules(call.query)) = 1

TheUniquePhraseRule == CHOOSE i \in PhraseRules(call.query) : TRUE

----------------------------------------------------------------------------
(* C1: get_rule is case-insensitive and tolerant of the RULE: prefix.      *)

\* q names the key k: the two are equal up to letter case, possibly after the
\* literal prefix RULE: is put in front of q or taken off q
NamesKey(q, k) ==
    \/ lower(q) = lower(k)
    \/ lower("RULE:" \o q) = lower(k)
    \/ startswith(q, "RULE:") /\ lower(From(q, 5)) = lower(k)

\* C1: get_rule(q) returns the record stored under every key that q names up
\* to letter case and the RULE: prefix.
C1_Original ==
    pc = "idle" /\ call.op = "get_rule" =>
        \A i \in 1..Len(RULE_INDEX) :
            NamesKey(call.rule_id, RULE_INDEX[i][1]) => ret = <<RULE_INDEX[i][2]>>

----------------------------------------------------------------------------
(* C4: the department filter is a case-insensitive prefix of the rule id.  *)

\* C4: a filtered search returns what the same search returns for any other
\* spelling of the department that differs only in letter case, and a
\* result that is not full holds every scored rule whose id starts with the
\* department case-insensitively.
C4_Original ==
    Searched /\ call.department # "" =>
        /\ \A d \in Departments :
            d # "" /\ lower(d) = lower(call.department) =>
                search(RULE_INDEX, call.query, d, call.max_results) = ret
        /\ Len(ret) < call.max_results =>
            \A i \in 1..Len(RULE_INDEX) :
                /\ startswith(lower(RULE_INDEX[i][1]), lower(call.department))
                /\ score_of(RULE_INDEX[i][2], call.query) > 0
                => i \in Returned

----------------------------------------------------------------------------
(* C5: check_conflicts compares rule ids case-insensitively.               *)

\* The registered entries, in registry order, that share an id with rule_ids
\* under case-insensitive comparison
SharingEntries(entries, rule_ids) ==
    SelectSeq(entries,
        LAMBDA e : \E i \in 1..Len(rule_ids) : \E j \in 1..Len(e.rules) :
            lower(rule_ids[i]) = lower(e.rules[j].rule_id))

\* C5: check_conflicts returns exactly the registered entries that share an
\* id with the input list under case-insensitive comparison.
C5_Original ==
    pc = "idle" /\ call.op = "check_conflicts" =>
        ret = SharingEntries(conflict_entries(policy_search[1].conflicts),
                             call.rule_ids)

----------------------------------------------------------------------------
(* C7: the rule-id component boost.                                        *)

\* The pieces of s between occurrences of the one-character separator sep
PiecesOf(s, sep) ==
    LET cuts == {0} \cup {i \in 1..Len(s) : Ch(s, i) = sep} \cup {Len(s) + 1}
    IN  {SubSeq(s, a + 1, b - 1) : <<a, b>> \in
            {c \in cuts \X cuts :
                c[1] < c[2] /\ \A k \in cuts : ~(c[1] < k /\ k < c[2])}}

\* The text of a rule id after its last ':'
TopicOf(rule_id) ==
    LET colons == {i \in 1..Len(rule_id) : Ch(rule_id, i) = ":"}
    IN  IF colons = {} THEN rule_id
        ELSE From(rule_id, CHOOSE i \in colons : \A j \in colons : j <= i)

\* The boost of one id component against one query word
ComponentBoost(component, word) ==
    IF IsSubstring(component, word) \/ IsSubstring(word, component) THEN 20
    ELSE IF SubSeq(component, 1, 4) = SubSeq(word, 1, 4) THEN 15 ELSE 0

\* The pairs of an id component and a query word, both longer than 3
BoostPairs(rule_id, query) ==
    {p \in PiecesOf(lower(TopicOf(rule_id)), "-") \X WordsOf(lower(query)) :
        Len(p[1]) > 3 /\ Len(p[2]) > 3}

\* C7: the score of every indexed rule includes the boost of each pair of an
\* id component and a query word, so a rule with a boosted pair has a
\* positive score of at least that boost.
C7_Original ==
    Searched /\ call.department = "" =>
        \A i \in 1..Len(RULE_INDEX) : \A p \in BoostPairs(RULE_INDEX[i][1], call.query) :
            score_of(RULE_INDEX[i][2], call.query) >= ComponentBoost(p[1], p[2])

----------------------------------------------------------------------------
(* C8: the category boost and the categories of the table.                 *)

\* The categories C8 lists
ClaimedCategories ==
    {"defense", "registration", "opt", "prospectus", "deadline",
     "international", "algorithm", "prerequisite", "course"}

\* C8: every listed category named in the query is a category of the table
\* that search consults, and the boost of a returned rule is 3 for each
\* term, of each table category named in the query, found in its content.
C8_Original ==
    Searched =>
        /\ \A c \in ClaimedCategories :
            IsSubstring(c, lower(call.query)) => has_key(keywords, c)
        /\ \A i \in 1..Len(ret) :
            LET q == lower(call.query)
                c == lower(ret[i].full_content)
                terms == UNION {{<<k, n>> : n \in 1..Len(keywords[k][2])} :
                                    k \in 1..Len(keywords)}
                hits == {t \in terms :
                            /\ IsSubstring(keywords[t[1]][1], q)
                            /\ IsSubstring(keywords[t[1]][2][t[2]], c)}
            IN  ret[i].score - phrase_score(q, c) - word_score(q, c)
                = 3 * Cardinality(hits)

----------------------------------------------------------------------------
(* C10: the example document and the query "register deadline".            *)

\* C10: with only the example document indexed, an unfiltered search for
\* "register deadline" returns GSAS:DEADLINE-001 with a score of at least 5.
C10_Original ==
    /\ Searched
    /\ DOCUMENTS = << <<"GSAS", GSAS_A>> >>
    /\ call.query = "register deadline"
    /\ call.department = ""
    /\ call.max_results >= 1
    => \E i \in 1..Len(ret) :
           ret[i].rule_id = "GSAS:DEADLINE-001" /\ ret[i].score >= 5

----------------------------------------------------------------------------
(* extract_conflicts.py: ConflictExtractor, the second parser of the        *)
(* policy documents.                                                        *)

DIGITS == "0123456789"

IsDigit(c) == \E i \in 1..10 : Ch(DIGITS, i) = c

\* \w for the characters of the model: letters, digits and the underscore
IsWord(c) == IsUpper(c) \/ (\E i \in 1..26 : Ch(LOWER, i) = c) \/ IsDigit(c) \/ c = "_"

\* The character classes of the patterns: \w, \d and [A-Z-]
in_class(class, c) ==
    CASE class = "word"  -> IsWord(c)
      [] class = "digit" -> IsDigit(c)
      [] OTHER           -> IsTagChar(c)

\* The end of the longest run of characters of a class that starts at
\* index start (start itself when the run is empty)
run_end(s, start, class) ==
    LET stops == {i \in start..(Len(s) - 1) : ~in_class(class, Ch(s, i + 1))}
    IN  IF stops = {} THEN (IF start > Len(s) THEN start ELSE Len(s))
        ELSE CHOOSE i \in stops : \A j \in stops : i <= j

\* int(digits) for a non-empty string of digits
RECURSIVE int(_)
int(digits) ==
    IF digits = "" THEN 0
    ELSE 10 * int(Upto(digits, Len(digits) - 1))
         + (CHOOSE d \in 0..9 : Ch(DIGITS, d + 1) = Ch(digits, Len(digits)))

\* re.search(r'\[JURISDICTION:(\w+)\]', content): <<>> or <<group 1>>
jurisdiction_match(content) ==
    LET open == "[JURISDICTION:"
        ok(p) == /\ startswith(From(content, p), open)
                 /\ run_end(content, p + Len(open), "word") > p + Len(open)
                 /\ Ch(content, run_end(content, p + Len(open), "word") + 1) = "]"
        starts == {p \in 0..Len(content) : ok(p)}
    IN  IF starts = {} THEN <<>>
        ELSE LET p == CHOOSE p \in starts : \A r \in starts : p <= r
             IN  <<SubSeq(content, p + Len(open) + 1,
                          run_end(content, p + Len(open), "word"))>>

\* re.search(r'\[PRECEDENCE:(\d+)-(\w+)\]', content): <<>> or <<group 1, group 2>>
precedence_match(content) ==
    LET open == "[PRECEDENCE:"
        num(p)  == run_end(content, p + Len(open), "digit")
        name(p) == run_end(content, num(p) + 1, "word")
        ok(p) == /\ startswith(From(content, p), open)
                 /\ num(p) > p + Len(open)
                 /\ Ch(content, num(p) + 1) = "-"
                 /\ name(p) > num(p) + 1
                 /\ Ch(content, name(p) + 1) = "]"
        starts == {p \in 0..Len(content) : ok(p)}
    IN  IF starts = {} THEN <<>>
        ELSE LET p == CHOOSE p \in starts : \A r \in starts : p <= r
             IN  <<SubSeq(content, p + Len(open) + 1, num(p)),
                   SubSeq(content, num(p) + 2, name(p))>>

\* The three patterns of _extract_rule_text tried at position p: the end of
\* the match, or -1.
\*   "rule"  r'\[/?RULE[^\]]*\]'
\*   "value" r'\[[A-Z-]+:[^\]]+\]'
\*   "bare"  r'\[[A-Z-]+\]'
match_end(pattern, s, p) ==
    LET word  == IF Ch(s, p + 2) = "/" THEN p + 2 ELSE p + 1
        name  == run_end(s, p + 1, "tag")
        close == find(s, "]", IF pattern = "rule" THEN word + 4 ELSE name + 1)
    IN  IF Ch(s, p + 1) # "[" THEN -1
        ELSE IF pattern = "rule"
        THEN IF startswith(From(s, IF word <= Len(s) THEN word ELSE Len(s)), "RULE")
                /\ close # -1
             THEN close + 1 ELSE -1
        ELSE IF pattern = "value"
        THEN IF name > p + 1 /\ Ch(s, name + 1) = ":" /\ close > name + 1
             THEN close + 1 ELSE -1
        ELSE IF name > p + 1 /\ Ch(s, name + 1) = "]" THEN name + 1 ELSE -1

\* re.sub(pattern, '', s) scanning from position p
RECURSIVE re_sub(_, _, _)
re_sub(pattern, s, p) ==
    LET starts == {q \in p..(Len(s) - 1) : match_end(pattern, s, q) # -1}
    IN  IF starts = {} THEN From(s, p)
        ELSE LET q == CHOOSE q \in starts : \A r \in starts : q <= r
             IN  SubSeq(s, p + 1, q) \o re_sub(pattern, s, match_end(pattern, s, q))

\* ConflictExtractor._extract_rule_text
extract_rule_text(content) ==
    strip(re_sub("bare", re_sub("value", re_sub("rule", content, 0), 0), 0))

\* ConflictExtractor._extract_tags: re.findall(rf'\[{tag_name}:([^\]]+)\]', content)
\* scanning from position p
RECURSIVE extract_tags_from(_, _, _)
extract_tags_from(content, tag_name, p) ==
    LET open == "[" \o tag_name \o ":"
        close(q) == find(content, "]", q + Len(open))
        starts == {q \in p..Len(content) :
                      startswith(From(content, q), open) /\ close(q) > q + Len(open)}
    IN  IF starts = {} THEN <<>>
        ELSE LET q == CHOOSE q \in starts : \A r \in starts : q <= r
             IN  <<SubSeq(content, q + Len(open) + 1, close(q))>>
                 \o extract_tags_from(content, tag_name, close(q) + 1)

extract_tags(content, tag_name) == extract_tags_from(content, tag_name, 0)
\* The rule_data record parse_document builds for one match
rule_data(m, jurisdiction, precedence) ==
    [rule_id             |-> m.id,
     jurisdiction        |-> jurisdiction,
     precedence          |-> precedence,
     content             |-> extract_rule_text(m.body),
     conflict_notes      |-> extract_tags(m.body, "CONFLICT-NOTE"),
     conflict_checks     |-> extract_tags(m.body, "CONFLICT-CHECK"),
     see_also            |-> extract_tags(m.body, "SEE-ALSO"),
     override            |-> extract_tags(m.body, "OVERRIDE"),
     conflict_resolution |-> extract_tags(m.body, "CONFLICT-RESOLUTION")]

\* The condition under which parse_document appends a rule to self.conflicts
has_annotations(rd) ==
    \/ rd.conflict_notes # <<>>
    \/ rd.conflict_checks # <<>>
    \/ rd.override # <<>>
    \/ rd.conflict_resolution # <<>>
    \/ /\ rd.see_also # <<>>
       /\ \E tag \in set(rd.conflict_notes \o rd.conflict_checks) :
              contains(lower(tag), "conflict")

\* The rule_data records of one document, in the order of the matches
rules_of(content) ==
    LET jm == jurisdiction_match(content)
        pm == precedence_match(content)
        ms == finditer(content, 0)
    IN  [i \in 1..Len(ms) |->
            rule_data(ms[i], IF jm # <<>> THEN jm[1] ELSE "UNKNOWN",
                      int(IF pm # <<>> THEN pm[1] ELSE "0"))]

\* ConflictExtractor.parse_document: the doc_info it returns
parse_document(filepath, content) ==
    LET jm == jurisdiction_match(content)
        pm == precedence_match(content)
    IN  [filepath        |-> filepath,
         jurisdiction    |-> IF jm # <<>> THEN jm[1] ELSE "UNKNOWN",
         precedence      |-> int(IF pm # <<>> THEN pm[1] ELSE "0"),
         precedence_name |-> IF pm # <<>> THEN pm[2] ELSE "Unknown",
         rules           |-> rules_of(content)]

\* self.rules_db[rule_id] = rule_data for the rules of a list, in order
RECURSIVE store_rules(_, _)
store_rules(rules_db, rules) ==
    IF rules = <<>> THEN rules_db
    ELSE store_rules(dict_set(rules_db, rules[1].rule_id, rules[1]), Tail(rules))

\* The state of a ConflictExtractor after process_all_documents over the
\* files of a documents directory (a dict file name -> text, in sorted order)
RECURSIVE process_all_documents(_, _)
process_all_documents(extractor, files) ==
    IF files = <<>> THEN extractor
    ELSE LET doc_data == parse_document(files[1][1], files[1][2])
         IN  process_all_documents(
                 [documents |-> Append(extractor.documents, doc_data),
                  rules_db  |-> store_rules(extractor.rules_db, doc_data.rules),
                  conflicts |-> extractor.conflicts
                                \o SelectSeq(doc_data.rules, has_annotations)],
                 Tail(files))

\* ConflictExtractor(): no document parsed, no rule and no conflict stored
ConflictExtractor == [documents |-> <<>>, rules_db |-> <<>>, conflicts |-> <<>>]
----------------------------------------------------------------------------
(* The parsers on bounded document texts: every text made of at most        *)
(* MaxFragments pieces, and the example document of the specification.      *)

\* the longest document text is made of MaxFragments fragments
MaxFragments == 3

Fragments ==
    {"[RULE:A:X-1]", "[RULE:B:Y-2]", " alpha[/RULE]", " beta\n",
     "[SEE_ALSO:v]", "[SEE-ALSO:A:X-1]", "[[NOTE]B]", "[RULE:"}

\* A document with the header tags of the policy files
HEADED ==
    "[JURISDICTION:ISSO][PRECEDENCE:02-Federal]\n[RULE:A:X-1][SEE-ALSO:B:Y-2][CONFLICT-NOTE:Conflict with B:Y-2] alpha[/RULE]"

RECURSIVE concat(_)
concat(pieces) == IF pieces = <<>> THEN "" ELSE pieces[1] \o concat(Tail(pieces))

ParserTexts ==
    {concat(pieces) : pieces \in UNION {[1..n -> Fragments] : n \in 0..MaxFragments}}
    \cup {GSAS_A, HEADED}

\* documents/gsas.txt holds one of the texts and load_documents has read it
InitParser ==
    /\ \E text \in ParserTexts : DOCUMENTS = <<<<"GSAS", text>>>>
    /\ CONFLICTS = <<>>
    /\ RULE_INDEX = <<>>
    /\ policy_search = <<>>
    /\ pc = "idle"
    /\ call = [op |-> "none"]
    /\ ret = <<>>
    /\ build = <<>>
    /\ WebStart

\* The file a document of DOCUMENTS was read from
filepath(doc_name) == "documents/" \o lower(doc_name) \o ".txt"

\* extract_conflicts.main: a new ConflictExtractor processes the files of
\* documents/ (the texts load_documents read)
ProcessAllDocuments ==
    /\ pc = "idle"
    /\ call' = [op |-> "process_all_documents"]
    /\ ret' = process_all_documents(ConflictExtractor,
                  [i \in 1..Len(DOCUMENTS) |->
                      <<filepath(DOCUMENTS[i][1]), DOCUMENTS[i][2]>>])
    /\ UNCHANGED <<DOCUMENTS, CONFLICTS, RULE_INDEX, policy_search, pc, build, web>>

NextParser ==
    \/ NewPolicySearch
    \/ ProcessAllDocuments

SpecParser == InitParser /\ [][NextParser]_vars

----------------------------------------------------------------------------
(* Vocabulary of the parser properties.                                     *)

RULE_CLOSE == "[/RULE]"

\* The index has been built from the document of the parser specification
Indexed == policy_search # <<>>

\* The conflict extractor has processed the document
Extracted == call.op = "process_all_documents"

\* The text of the document under documents/
TheText == DOCUMENTS[1][2]

\* The records of the index, in index order
IndexRecords == [i \in 1..Len(RULE_INDEX) |-> RULE_INDEX[i][2]]

\* The rules the extractor reported for the document, in order
ExtractedRules == ret.documents[1].rules

\* The text of a block after its opening marker [RULE:<id>]
AfterMarker(block) == From(block, find(block, "]", 0) + 1)

----------------------------------------------------------------------------
(* C11: a closing marker [/RULE] ends the rule block.                       *)

\* C11 as stated: when [/RULE] occurs in a block after its opening marker,
\* the raw block of the index record ends with that closing marker, and the
\* content both parsers give the rule is the visible text before the closing
\* marker: nothing of the text that follows it.
C11_Original ==
    /\ Indexed =>
          \A i \in 1..Len(IndexRecords) :
              LET r     == IndexRecords[i]
                  body  == AfterMarker(r.full_block)
                  close == find(body, RULE_CLOSE, 0)
              IN  close # -1 =>
                      /\ Len(body) = close + Len(RULE_CLOSE)
                      /\ r.content = clean_content(strip(Upto(body, close)))
    /\ Extracted =>
          \A i \in 1..Len(ExtractedRules) :
              LET body  == finditer(TheText, 0)[i].body
                  close == find(body, RULE_CLOSE, 0)
              IN  close # -1 =>
                      ExtractedRules[i].content = extract_rule_text(Upto(body, close))

----------------------------------------------------------------------------
(* C12: one rule block per opening marker, in document order.               *)

\* The positions of the opening markers: where the text reads "[RULE:"
MarkerPositions(text) ==
    {p \in 1..(Len(text) - 5) : SubSeq(text, p, p + 5) = "[RULE:"}

\* The position of the first "]" after position p (0 when there is none)
ClosingOf(text, p) ==
    LET closes == {e \in p..Len(text) : SubSeq(text, e, e) = "]"}
    IN  IF closes = {} THEN 0 ELSE CHOOSE e \in closes : \A f \in closes : e <= f

\* A document is well formed when each opening marker is [RULE:<id>] with a
\* non-empty id that holds no bracket
WellFormed(text) ==
    \A p \in MarkerPositions(text) :
        /\ ClosingOf(text, p) > p + 6
        /\ \A k \in (p + 6)..(ClosingOf(text, p) - 1) : SubSeq(text, k, k) # "["

\* The ids of the opening markers of a well-formed document, in document order
MarkerIds(text) ==
    LET ps == MarkerPositions(text)
        nth(i) == CHOOSE p \in ps : Cardinality({r \in ps : r < p}) = i - 1
    IN  [i \in 1..Cardinality(ps) |->
            SubSeq(text, nth(i) + 6, ClosingOf(text, nth(i)) - 1)]

\* A sequence without the repetitions of its elements
FirstOccurrences(xs) ==
    LET firsts == {i \in 1..Len(xs) : \A j \in 1..(i - 1) : xs[j] # xs[i]}
        nth(i) == CHOOSE p \in firsts : Cardinality({r \in firsts : r < p}) = i - 1
    IN  [i \in 1..Cardinality(firsts) |-> xs[nth(i)]]

\* C12: for a well-formed document the extractor reports one rule per
\* opening marker, with the marker's id, in document order; the index builder
\* matches the same blocks and keeps one record per id, each record carrying
\* its key as id and a raw block that starts with its own marker.
C12_BlockPerMarker ==
    WellFormed(TheText) =>
        /\ Extracted =>
              [i \in 1..Len(ExtractedRules) |-> ExtractedRules[i].rule_id]
                  = MarkerIds(TheText)
        /\ Indexed =>
              /\ keys(RULE_INDEX) = FirstOccurrences(MarkerIds(TheText))
              /\ \A i \in 1..Len(RULE_INDEX) :
                    LET r == RULE_INDEX[i][2]
                        marker == "[RULE:" \o RULE_INDEX[i][1] \o "]"
                    IN  /\ r.id = RULE_INDEX[i][1]
                        /\ Len(r.full_block) >= Len(marker)
                        /\ SubSeq(r.full_block, 1, Len(marker)) = marker

\* Both parsers have run on a well-formed document with two opening markers
C12_Witness ==
    /\ Indexed
    /\ Extracted
    /\ WellFormed(TheText)
    /\ Len(MarkerIds(TheText)) = 2
    /\ Len(ExtractedRules) = 2
    /\ Len(RULE_INDEX) = 2

----------------------------------------------------------------------------
(* C13: the content of a rule is its block text without the tags.           *)

\* A character a tag name may hold: a letter, an underscore or a hyphen
IsNameChar(c) ==
    \/ \E i \in 1..26 : SubSeq(UPPER, i, i) = c \/ SubSeq(LOWER, i, i) = c
    \/ c \in {"_", "-"}

\* A tag [TAG_NAME:value], [TAG_NAME] or [/RULE] starts at position p of text
TagAt(text, p) ==
    /\ SubSeq(text, p, p) = "["
    /\ \/ p + 6 <= Len(text) /\ SubSeq(text, p, p + 6) = "[/RULE]"
       \/ \E e \in (p + 2)..Len(text) :
              /\ SubSeq(text, e, e) \in {"]", ":"}
              /\ \A k \in (p + 1)..(e - 1) : IsNameChar(SubSeq(text, k, k))
              /\ \E f \in e..Len(text) : SubSeq(text, f, f) = "]"

NoTagRemains(text) == \A p \in 1..Len(text) : ~TagAt(text, p)

\* The last rule the extractor reported under each id
LastExtracted ==
    {i \in 1..Len(ExtractedRules) :
        \A j \in (i + 1)..Len(ExtractedRules) :
            ExtractedRules[j].rule_id # ExtractedRules[i].rule_id}

\* C13 as stated: no tag remains in the content either parser gives a rule,
\* the example block yields exactly its sentence, and the index builder and
\* the conflict extractor give the same block the same content.
C13_Original ==
    /\ Indexed =>
          /\ \A i \in 1..Len(IndexRecords) : NoTagRemains(IndexRecords[i].content)
          /\ TheText = GSAS_A =>
                IndexRecords[1].content
                    = "Students must register within 30 days of defense."
    /\ Extracted =>
          /\ \A i \in 1..Len(ExtractedRules) : NoTagRemains(ExtractedRules[i].content)
          /\ TheText = GSAS_A =>
                ExtractedRules[1].content
                    = "Students must register within 30 days of defense."
    /\ Indexed /\ Extracted =>
          \A i \in LastExtracted :
              \E k \in 1..Len(RULE_INDEX) :
                  /\ RULE_INDEX[k][1] = ExtractedRules[i].rule_id
                  /\ RULE_INDEX[k][2].content = ExtractedRules[i].content

----------------------------------------------------------------------------
(* C14: stripping the tags of a block text twice gives what stripping once  *)
(* gives.                                                                   *)

\* C14 as stated: the content a parser computed from a block text is a fixed
\* point of that parser's tag-removal-and-trim step, whatever brackets the
\* block text holds.
C14_Original ==
    /\ Indexed =>
          \A i \in 1..Len(IndexRecords) :
              clean_content(strip(IndexRecords[i].content)) = IndexRecords[i].content
    /\ Extracted =>
          \A i \in 1..Len(ExtractedRules) :
              extract_rule_text(ExtractedRules[i].content) = ExtractedRules[i].content

----------------------------------------------------------------------------
(* C15: the tags of a rule block, by tag name.                              *)

\* The tags [NAME:value] of a text: <<position, name, value>> for every "["
\* followed by a name, a colon, a non-empty value and the next "]"
TagOccurrences(text) ==
    {<<p, SubSeq(text, p + 1, c - 1), SubSeq(text, c + 1, e - 1)>> :
        <<p, c, e>> \in
            {<<p, c, e>> \in (1..Len(text)) \X (1..Len(text)) \X (1..Len(text)) :
                /\ p + 1 < c /\ c + 1 < e
                /\ SubSeq(text, p, p) = "["
                /\ SubSeq(text, c, c) = ":"
                /\ SubSeq(text, e, e) = "]"
                /\ \A k \in (p + 1)..(c - 1) : IsNameChar(SubSeq(text, k, k))
                /\ \A k \in (c + 1)..(e - 1) : SubSeq(text, k, k) # "]"}}

\* The values of the tags of one name, in order of occurrence
TagValues(text, name) ==
    LET occ == {o \in TagOccurrences(text) : o[2] = name}
        nth(i) == CHOOSE o \in occ : Cardinality({r \in occ : r[1] < o[1]}) = i - 1
    IN  [i \in 1..Cardinality(occ) |-> nth(i)[3]]

\* The mapping from tag name to values that a reported rule carries
TagMapping(rule) ==
    [name \in {"CONFLICT-NOTE", "CONFLICT-CHECK", "SEE-ALSO", "OVERRIDE",
               "CONFLICT-RESOLUTION"} |->
        CASE name = "CONFLICT-NOTE"  -> rule.conflict_notes
          [] name = "CONFLICT-CHECK" -> rule.conflict_checks
          [] name = "SEE-ALSO"       -> rule.see_also
          [] name = "OVERRIDE"       -> rule.override
          [] OTHER                   -> rule.conflict_resolution]

\* C15 as stated: the mapping of every reported rule has, for each tag name
\* that occurs in the rule's block, the list of that tag's values in order of
\* occurrence; for the example block it holds TIMING -> <<"30 days">>.
C15_Original ==
    Extracted =>
        \A i \in 1..Len(ExtractedRules) :
            LET body == finditer(TheText, 0)[i].body
            IN  \A o \in TagOccurrences(body) :
                    /\ o[2] \in DOMAIN TagMapping(ExtractedRules[i])
                    /\ TagMapping(ExtractedRules[i])[o[2]] = TagValues(body, o[2])

----------------------------------------------------------------------------
(* Building the index again: PolicySearch objects constructed one after the *)
(* other in one process, each from the documents its caller passes.         *)

ISSO_B ==
    "[RULE:ISSO:OPT-001]opt deadline.\n[RULE:GSAS:DEADLINE-001]Register with ISSO before the opt deadline.\n"

PHD_B ==
    "[RULE:PhD_SEAS:COURSE-002]Register early.\n[RULE:PhD_SEAS:COURSE-002]Register for the defense.\n"

\* The documents arguments of the constructor calls
DocumentSets ==
    {<<>>,
     <<<<"GSAS", GSAS_A>>>>,
     <<<<"GSAS", GSAS_B>>, <<"ISSO", ISSO_B>>>>,
     <<<<"PHD_SEAS", PHD_B>>>>}

\* PolicySearch(documents, conflicts) for any documents: __init__ stores its
\* arguments and runs build_rule_index, which writes the rules of documents
\* into the module's RULE_INDEX
Construct ==
    /\ pc = "idle"
    /\ \E documents \in DocumentSets, conflicts \in {CONFLICTS, <<>>} :
        /\ policy_search' = <<[documents |-> documents, conflicts |-> conflicts]>>
        /\ RULE_INDEX' = build_rule_index(RULE_INDEX, documents)
    /\ call' = [op |-> "__init__"]
    /\ ret' = <<>>
    /\ UNCHANGED <<DOCUMENTS, CONFLICTS, pc, build, web>>

\* The lookups made while and after the index is built again: a search over
\* all departments, or get_rule on an id
LookupQueries == {"register deadline", "opt deadline", "Register early."}

InvokeSearch ==
    /\ pc = "idle"
    /\ policy_search # <<>>
    /\ \E query \in LookupQueries :
            call' = [op |-> "search", query |-> query,
                     department |-> "", max_results |-> MaxLimit]
    /\ pc' = "called"
    /\ ret' = <<>>
    /\ UNCHANGED <<DOCUMENTS, CONFLICTS, RULE_INDEX, policy_search, build, web>>

InvokeGetRule ==
    /\ pc = "idle"
    /\ policy_search # <<>>
    /\ \E rule_id \in RuleIds \cup {"PhD_SEAS:COURSE-002", "ISSO:OPT-001"} :
            call' = [op |-> "get_rule", rule_id |-> rule_id]
    /\ pc' = "called"
    /\ ret' = <<>>
    /\ UNCHANGED <<DOCUMENTS, CONFLICTS, RULE_INDEX, policy_search, build, web>>

NextRebuild ==
    \/ Construct
    \/ InvokeSearch
    \/ InvokeGetRule
    \/ Search
    \/ GetRule

SpecRebuild == Init /\ [][NextRebuild]_vars

----------------------------------------------------------------------------
(* C16: of two definitions of a rule id the one processed last is kept.     *)

\* The rule definitions of the documents of the PolicySearch object, in
\* processing order: document by document, block by block
RECURSIVE DefinitionsOf(_)
DefinitionsOf(documents) ==
    IF documents = <<>> THEN <<>>
    ELSE LET ms == finditer(documents[1][2], 0)
         IN  [i \in 1..Len(ms) |-> rule_record(documents[1][1], ms[i])]
             \o DefinitionsOf(Tail(documents))

Definitions == DefinitionsOf(policy_search[1].documents)

\* The definitions after which the documents define the same id again
Overwritten ==
    {i \in 1..Len(Definitions) :
        \E j \in (i + 1)..Len(Definitions) : Definitions[j].id = Definitions[i].id}

\* C16: for every rule id the documents of the PolicySearch object define,
\* the index holds exactly one record, that of the last definition processed;
\* get_rule returns that record (its content and document name), and the
\* result of a search shows the content and document of no earlier definition.
C16_LastDefinitionKept ==
    policy_search # <<>> =>
        \A i \in (1..Len(Definitions)) \ Overwritten :
            LET last == Definitions[i]
            IN  /\ Cardinality({k \in 1..Len(RULE_INDEX) : RULE_INDEX[k][1] = last.id}) = 1
                /\ \A k \in 1..Len(RULE_INDEX) :
                       RULE_INDEX[k][1] = last.id => RULE_INDEX[k][2] = last
                /\ (pc = "idle" /\ call.op = "get_rule" /\ call.rule_id = last.id)
                       => ret = <<last>>
                /\ Searched =>
                       \A k \in 1..Len(ret) :
                           ret[k].rule_id = last.id =>
                               /\ ret[k].full_content = last.content
                               /\ ret[k].document = last.document

\* get_rule has returned the ISSO definition of an id that the GSAS document,
\* processed earlier, defines with another content
C16_Witness ==
    /\ policy_search # <<>>
    /\ pc = "idle"
    /\ call.op = "get_rule"
    /\ call.rule_id = "GSAS:DEADLINE-001"
    /\ \E i \in Overwritten :
           /\ Definitions[i].id = call.rule_id
           /\ Definitions[i].document = "GSAS"
           /\ Definitions[i].content # ret[1].content
    /\ ret[1].document = "ISSO"
    /\ ret[1].content = "Register with ISSO before the opt deadline."

----------------------------------------------------------------------------
(* C18: building the index again replaces it.                               *)

\* The rule ids the documents of the PolicySearch object define
DefinedIds == {Definitions[i].id : i \in 1..Len(Definitions)}

\* C18 as stated: the index holds exactly the rules of the documents the last
\* PolicySearch object was built from; get_rule and search return no rule
\* whose id those documents do not define.
C18_Original ==
    policy_search # <<>> =>
        /\ {RULE_INDEX[k][1] : k \in 1..Len(RULE_INDEX)} = DefinedIds
        /\ (pc = "idle" /\ call.op = "get_rule" /\ call.rule_id \notin DefinedIds)
               => ret = <<>>
        /\ Searched => \A k \in 1..Len(ret) : ret[k].rule_id \in DefinedIds

----------------------------------------------------------------------------
(* Threads: one thread builds the index again while another one reads it.   *)
(* The interpreter switches threads between bytecodes, so a dict            *)
(* assignment, a dict.get and one step of a dict iterator are atomic, a     *)
(* whole build_rule_index or a whole search is not.  The model follows one  *)
(* rebuild of an index that was built before.                               *)

\* A PolicySearch object exists and its index is complete
InitThreads ==
    /\ DOCUMENTS = <<>>
    /\ CONFLICTS = <<>>
    /\ \E documents \in DocumentSets :
        /\ RULE_INDEX = build_rule_index(<<>>, documents)
        /\ policy_search = <<[documents |-> documents, conflicts |-> <<>>]>>
    /\ pc = "idle"
    /\ call = [op |-> "none"]
    /\ ret = <<>>
    /\ build = <<>>
    /\ WebStart

\* The records build_rule_index assigns for the documents, in order
RECURSIVE records_of(_)
records_of(documents) ==
    IF documents = <<>> THEN <<>>
    ELSE LET ms == finditer(documents[1][2], 0)
         IN  [i \in 1..Len(ms) |-> rule_record(documents[1][1], ms[i])]
             \o records_of(Tail(documents))

\* A thread calls PolicySearch(documents, conflicts): __init__ stores the
\* arguments and build_rule_index starts on the documents
BeginBuild ==
    /\ build = <<>>
    /\ \E documents \in DocumentSets :
        build' = <<[old       |-> RULE_INDEX,
                    documents |-> documents,
                    todo      |-> records_of(documents),
                    done      |-> FALSE]>>
    /\ UNCHANGED <<DOCUMENTS, CONFLICTS, RULE_INDEX, policy_search, pc, call, ret, web>>

\* RULE_INDEX[rule_id] = {...} for the next match
BuildStep ==
    /\ build # <<>>
    /\ build[1].todo # <<>>
    /\ RULE_INDEX' = dict_set(RULE_INDEX, build[1].todo[1].id, build[1].todo[1])
    /\ build' = <<[build[1] EXCEPT !.todo = Tail(@)]>>
    /\ UNCHANGED <<DOCUMENTS, CONFLICTS, policy_search, pc, call, ret, web>>

\* build_rule_index and __init__ return; the caller keeps the new object
FinishBuild ==
    /\ build # <<>>
    /\ build[1].todo = <<>>
    /\ ~build[1].done
    /\ policy_search' = <<[documents |-> build[1].documents, conflicts |-> <<>>]>>
    /\ build' = <<[build[1] EXCEPT !.done = TRUE]>>
    /\ UNCHANGED <<DOCUMENTS, CONFLICTS, RULE_INDEX, pc, call, ret, web>>

RUNTIME_ERROR == [error |-> "RuntimeError: dictionary changed size during iteration"]

\* search reaches "for rule_id, rule_data in RULE_INDEX.items()": the
\* iterator notes the size of the dict
StartScan ==
    /\ pc = "called"
    /\ call.op = "search"
    /\ pc' = "scanning"
    /\ call' = [op |-> "search", query |-> call.query, department |-> call.department,
                max_results |-> call.max_results,
                used |-> Len(RULE_INDEX), pos |-> 0, results |-> <<>>]
    /\ UNCHANGED <<DOCUMENTS, CONFLICTS, RULE_INDEX, policy_search, ret, build, web>>

\* One step of the loop of search: the iterator raises RuntimeError when the
\* size of the dict is no longer the one it noted; else it yields the next
\* entry, which the loop body scores, or it is exhausted and search sorts,
\* slices and returns
ScanStep ==
    /\ pc = "scanning"
    /\ IF Len(RULE_INDEX) # call.used
       THEN /\ ret' = RUNTIME_ERROR
            /\ pc' = "idle"
            /\ call' = call
       ELSE IF call.pos < Len(RULE_INDEX)
       THEN /\ call' = [call EXCEPT
                           !.pos = @ + 1,
                           !.results = @ \o scan(<<RULE_INDEX[call.pos + 1]>>,
                                                 call.query, call.department)]
            /\ UNCHANGED <<pc, ret>>
       ELSE /\ ret' = slice_upto(sort_by_score(<<>>, call.results), call.max_results)
            /\ pc' = "idle"
            /\ call' = call
    /\ UNCHANGED <<DOCUMENTS, CONFLICTS, RULE_INDEX, policy_search, build, web>>

NextThreads ==
    \/ BeginBuild
    \/ BuildStep
    \/ FinishBuild
    \/ InvokeSearch
    \/ InvokeGetRule
    \/ StartScan
    \/ ScanStep
    \/ GetRule

SpecThreads == InitThreads /\ [][NextThreads]_vars

----------------------------------------------------------------------------
(* C17: a rebuild of the index is atomic for the readers.                   *)

\* The index before the rebuild and the index after it
CompleteIndexes ==
    IF build = <<>> THEN {RULE_INDEX}
    ELSE {build[1].old, build_rule_index(build[1].old, build[1].documents)}

\* C17 as stated: whatever the interleaving of the rebuild with a search or
\* a get_rule, the call completes with the answer it would give on the
\* complete old index or on the complete new index; it does not fail and it
\* does not answer from an index that holds part of the new rules.
C17_Original ==
    /\ (pc = "idle" /\ call.op = "search") =>
           \E index \in CompleteIndexes :
               ret = search(index, call.query, call.department, call.max_results)
    /\ (pc = "idle" /\ call.op = "get_rule") =>
           \E index \in CompleteIndexes : ret = get_rule(index, call.rule_id)

----------------------------------------------------------------------------
(* The tool dispatchers: call_tool of policy_server/server.py and           *)
(* call_mcp_tool of webapp/app.py.  policy_search stands for the engine of  *)
(* the running program (server.policy_search, or SEARCH_ENGINE of the web   *)
(* application); a response is a record, None inside a response is <<>>.    *)

\* "conflicts if conflicts else None"
or_none(conflicts) == IF conflicts # <<>> THEN <<conflicts>> ELSE <<>>

\* Variant of tool_search_policies: the conflict lookup is made on every
\* rule the search scored, before the list is cut to max_results
tool_search_policies_uncut(arguments, index, engine) ==
    LET results   == search(index, arguments.query, arguments.department,
                            arguments.max_results)
        scored    == search(index, arguments.query, arguments.department,
                            Len(index))
        conflicts == check_conflicts(engine.conflicts,
                                     [i \in 1..Len(scored) |-> scored[i].rule_id])
    IN  [response |-> [query              |-> arguments.query,
                       results_count      |-> Len(results),
                       results            |-> results,
                       conflicts_detected |-> Len(conflicts) > 0,
                       conflicts          |-> or_none(conflicts)],
         methods  |-> <<"search", "check_conflicts">>]

\* The branch of search_policies: the response and the methods it called
tool_search_policies(arguments, index, engine) ==
    LET results   == search(index, arguments.query, arguments.department,
                            arguments.max_results)
        conflicts == check_conflicts(engine.conflicts,
                                     [i \in 1..Len(results) |-> results[i].rule_id])
    IN  [response |-> [query              |-> arguments.query,
                       results_count      |-> Len(results),
                       results            |-> results,
                       conflicts_detected |-> Len(conflicts) > 0,
                       conflicts          |-> or_none(conflicts)],
         methods  |-> <<"search", "check_conflicts">>]

\* Variant of tool_get_rule: the conflict lookup is made before the test
tool_get_rule_lookup_first(arguments, index, engine) ==
    LET rule == get_rule(index, arguments.rule_id)
    IN  IF rule = <<>>
        THEN [response |-> [error |-> "Rule " \o arguments.rule_id \o " not found"],
              methods  |-> <<"get_rule", "check_conflicts">>]
        ELSE [response |-> [rule      |-> rule[1],
                            conflicts |-> or_none(check_conflicts(engine.conflicts,
                                                      <<arguments.rule_id>>))],
              methods  |-> <<"get_rule", "check_conflicts">>]

\* The branch of get_rule: "if not rule" returns the error before the
\* conflict lookup
tool_get_rule(arguments, index, engine) ==
    LET rule == get_rule(index, arguments.rule_id)
    IN  IF rule = <<>>
        THEN [response |-> [error |-> "Rule " \o arguments.rule_id \o " not found"],
              methods  |-> <<"get_rule">>]
        ELSE [response |-> [rule      |-> rule[1],
                            conflicts |-> or_none(check_conflicts(engine.conflicts,
                                                      <<arguments.rule_id>>))],
              methods  |-> <<"get_rule", "check_conflicts">>]

\* The branch of check_conflicts
tool_check_conflicts(arguments, engine) ==
    LET conflicts == check_conflicts(engine.conflicts, arguments.rule_ids)
    IN  [response |-> [rule_ids_checked |-> arguments.rule_ids,
                       conflicts_found  |-> Len(conflicts),
                       conflicts        |-> conflicts],
         methods  |-> <<"check_conflicts">>]

\* The branch of get_precedence_framework: CONFLICTS.get('precedence_framework', {})
tool_get_precedence_framework(registry) ==
    [response |-> IF has_key(registry, "precedence_framework")
                  THEN dict_get(registry, "precedence_framework")[1] ELSE <<>>,
     methods  |-> <<>>]

\* The if/elif chain of both dispatchers
dispatch(name, arguments, index, engine, registry) ==
    CASE name = "search_policies" -> tool_search_policies(arguments, index, engine)
      [] name = "get_rule" -> tool_get_rule(arguments, index, engine)
      [] name = "check_conflicts" -> tool_check_conflicts(arguments, engine)
      [] name = "get_precedence_framework" -> tool_get_precedence_framework(registry)
      [] OTHER -> [response |-> [error |-> "Unknown tool"], methods |-> <<>>]

\* The tool calls of the clients
ToolCalls ==
    {[name |-> "search_policies",
      arguments |-> [query |-> q, department |-> d, max_results |-> MaxLimit]] :
        q \in {"register deadline", "opt opt"}, d \in {"", "GSAS"}}
    \cup {[name |-> "get_rule", arguments |-> [rule_id |-> r]] : r \in RuleIds}
    \cup {[name |-> "check_conflicts", arguments |-> [rule_ids |-> rs]] :
            rs \in RuleIdLists}
    \cup {[name |-> "get_precedence_framework", arguments |-> <<>>],
          [name |-> "list_rules", arguments |-> <<>>]}

\* A client calls a tool.  The MCP server serves call_tool after main has
\* constructed the engine; the web application serves call_mcp_tool from
\* the moment it is imported.
InvokeTool ==
    /\ pc = "idle"
    /\ \E via \in {"call_tool", "call_mcp_tool"}, tool \in ToolCalls :
        /\ via = "call_tool" => policy_search # <<>>
        /\ call' = [op |-> via, name |-> tool.name, arguments |-> tool.arguments,
                    methods |-> <<>>]
    /\ pc' = "called"
    /\ ret' = <<>>
    /\ UNCHANGED <<DOCUMENTS, CONFLICTS, RULE_INDEX, policy_search, build, web>>

\* call_tool: the dispatch on the engine main constructed
CallTool ==
    /\ pc = "called"
    /\ call.op = "call_tool"
    /\ LET d == dispatch(call.name, call.arguments, RULE_INDEX, policy_search[1],
                         CONFLICTS)
       IN  /\ ret' = d.response
           /\ call' = [call EXCEPT !.methods = d.methods]
    /\ pc' = "idle"
    /\ UNCHANGED <<DOCUMENTS, CONFLICTS, RULE_INDEX, policy_search, build, web>>
\* load_documents() on the files fs: the documents and the registry after it
load_documents(documents, fs) ==
    load_file(load_file(load_file(documents,
        "GSAS", fs.gsas), "ISSO", fs.isso), "PHD_SEAS", fs.phd_seas)

load_conflicts(registry, fs) == IF fs.conflicts # <<>> THEN fs.conflicts ELSE registry

\* Variant of needs_init: the engine is initialised on every tool call
needs_init_always(engine) == TRUE

\* "if not SEARCH_ENGINE"
needs_init(engine) == engine = <<>>

\* call_mcp_tool, first part: with no engine it runs init_mcp_server, which
\* loads the files, gives up when no document was read, and else constructs
\* the engine (with the registry object it imported before the load); a
\* failed initialisation returns an error to the client
EnsureEngine ==
    /\ pc = "called"
    /\ call.op = "call_mcp_tool"
    /\ IF ~needs_init(policy_search)
       THEN /\ pc' = "ready"
            /\ UNCHANGED <<DOCUMENTS, CONFLICTS, RULE_INDEX, policy_search, ret>>
       ELSE \E fs \in FileSystems :
            /\ DOCUMENTS' = load_documents(DOCUMENTS, fs)
            /\ CONFLICTS' = load_conflicts(CONFLICTS, fs)
            /\ IF DOCUMENTS' = <<>>
               THEN /\ ret' = [error |-> "Failed to initialize MCP server"]
                    /\ pc' = "idle"
                    /\ UNCHANGED <<RULE_INDEX, policy_search>>
               ELSE /\ policy_search' = <<[documents |-> DOCUMENTS',
                                           conflicts |-> CONFLICTS]>>
                    /\ RULE_INDEX' = build_rule_index(RULE_INDEX, DOCUMENTS')
                    /\ pc' = "ready"
                    /\ ret' = ret
    /\ UNCHANGED <<call, build, web>>

\* call_mcp_tool, second part: the dispatch on the engine
CallMcpTool ==
    /\ pc = "ready"
    /\ call.op = "call_mcp_tool"
    /\ LET d == dispatch(call.name, call.arguments, RULE_INDEX, policy_search[1],
                         CONFLICTS)
       IN  /\ ret' = d.response
           /\ call' = [call EXCEPT !.methods = d.methods]
    /\ pc' = "idle"
    /\ UNCHANGED <<DOCUMENTS, CONFLICTS, RULE_INDEX, policy_search, build, web>>

\* A direct call of check_conflicts
InvokeCheckConflicts ==
    /\ pc = "idle"
    /\ policy_search # <<>>
    /\ \E rule_ids \in RuleIdLists :
            call' = [op |-> "check_conflicts", rule_ids |-> rule_ids]
    /\ pc' = "called"
    /\ ret' = <<>>
    /\ UNCHANGED <<DOCUMENTS, CONFLICTS, RULE_INDEX, policy_search, build, web>>

NextTools ==
    \/ LoadDocuments
    \/ NewPolicySearch
    \/ InvokeTool
    \/ CallTool
    \/ EnsureEngine
    \/ CallMcpTool
    \/ InvokeSearch
    \/ InvokeGetRule
    \/ InvokeCheckConflicts
    \/ Search
    \/ GetRule
    \/ CheckConflicts

SpecTools == Init /\ [][NextTools]_vars

----------------------------------------------------------------------------
(* C19: the queries leave the index and the registry unchanged.             *)

\* A step of a query: of a direct method call or of a tool call
QueryStep == pc \in {"called", "ready"}

----------------------------------------------------------------------------
(* C20: get_rule on an unknown id.                                          *)

\* The step is the dispatch of a get_rule tool call, or a direct get_rule
\* call, on an id that is no key of the index
UnknownRuleLookup(rule_id) ==
    /\ policy_search # <<>>
    /\ \A k \in 1..Len(RULE_INDEX) : RULE_INDEX[k][1] # rule_id

----------------------------------------------------------------------------
(* A conflict registry that is missing or malformed.                        *)

\* conflicts.json without the "conflicts" key
REGISTRY_NO_LIST ==
    << <<"precedence_framework", "ISSO > GSAS > PHD_SEAS">> >>

\* conflicts.json with an entry that has no "rules" key
REGISTRY_NO_RULES ==
    << <<"conflicts",
         << [id |-> "CONF-1",
             rules |-> <<[rule_id |-> "GSAS:DEADLINE-001"], [rule_id |-> "ISSO:OPT-001"]>>],
            [id |-> "CONF-2", description |-> "to be completed"] >> >> >>

\* The possible contents of documents/ and conflicts.json, the registry
\* being absent, well formed or malformed
RegistryFileSystems ==
    [gsas : {ABSENT, GSAS_A, GSAS_B}, isso : {ABSENT, ISSO_A}, phd_seas : {ABSENT},
     conflicts : {<<>>, REGISTRY_A, REGISTRY_NO_LIST, REGISTRY_NO_RULES}]

\* load_documents() on such files; json.load accepts each of the registries
LoadRegistry ==
    /\ pc = "idle"
    /\ policy_search = <<>>
    /\ DOCUMENTS = <<>>
    /\ \E fs \in RegistryFileSystems :
        /\ DOCUMENTS' = load_documents(DOCUMENTS, fs)
        /\ CONFLICTS' = load_conflicts(CONFLICTS, fs)
    /\ call' = [op |-> "load_documents"]
    /\ ret' = <<>>
    /\ UNCHANGED <<RULE_INDEX, policy_search, pc, build, web>>

\* main: policy_search = PolicySearch(DOCUMENTS, CONFLICTS) after
\* load_documents(), with the registry that was loaded
Main ==
    /\ pc = "idle"
    /\ policy_search = <<>>
    /\ call.op = "load_documents"
    /\ policy_search' = <<[documents |-> DOCUMENTS, conflicts |-> CONFLICTS]>>
    /\ RULE_INDEX' = build_rule_index(RULE_INDEX, DOCUMENTS)
    /\ call' = [op |-> "__init__"]
    /\ UNCHANGED <<DOCUMENTS, CONFLICTS, pc, ret, build, web>>

NextRegistry ==
    \/ LoadRegistry
    \/ Main
    \/ InvokeCheckConflicts
    \/ CheckConflicts
    \/ InvokeGetRule
    \/ GetRule

SpecRegistry == Init /\ [][NextRegistry]_vars

----------------------------------------------------------------------------
(* C21: a missing or malformed registry holds no known conflict.            *)

\* The registry of the engine is missing or malformed: nothing was loaded,
\* it has no "conflicts" collection, or one of its entries has no rule list
MissingOrMalformed(registry) ==
    \/ registry = <<>>
    \/ \A i \in 1..Len(registry) : registry[i][1] # "conflicts"
    \/ \E i \in 1..Len(registry) :
        /\ registry[i][1] = "conflicts"
        /\ \E j \in 1..Len(registry[i][2]) : "rules" \notin DOMAIN registry[i][2][j]

\* C21: on an engine whose registry is missing or malformed, every completed
\* check_conflicts call has returned the empty list
C21_Original ==
    (/\ pc = "idle"
     /\ call.op = "check_conflicts"
     /\ MissingOrMalformed(policy_search[1].conflicts))
        => ret = <<>>

----------------------------------------------------------------------------
(* The search responses: rules longer than the preview, and result lists    *)
(* that the limit cuts.                                                     *)

\* 50 characters
BLOCK_50 == "register intention-to-graduate-form-before-defense"

\* Rule contents of exactly 300 and of 301 characters
TEXT_300 == BLOCK_50 \o BLOCK_50 \o BLOCK_50 \o BLOCK_50 \o BLOCK_50 \o BLOCK_50

TEXT_301 == TEXT_300 \o "s"

GSAS_LONG ==
    "[RULE:GSAS:FORM-300]" \o TEXT_300 \o "\n[RULE:GSAS:FORM-301][TIMING:30 days]"
        \o TEXT_301 \o "[/RULE]\n[RULE:GSAS:DEADLINE-001]Check the international opt deadline.\n"

\* The possible contents of documents/ and conflicts.json
ResponseFileSystems ==
    [gsas : {ABSENT, GSAS_B, GSAS_LONG}, isso : {ISSO_A},
     phd_seas : {ABSENT, PHD_A}, conflicts : {<<>>, REGISTRY_A}]

\* load_documents() on such files
LoadResponseFiles ==
    /\ pc = "idle"
    /\ policy_search = <<>>
    /\ DOCUMENTS = <<>>
    /\ \E fs \in ResponseFileSystems :
        /\ DOCUMENTS' = load_documents(DOCUMENTS, fs)
        /\ CONFLICTS' = load_conflicts(CONFLICTS, fs)
    /\ call' = [op |-> "load_documents"]
    /\ ret' = <<>>
    /\ UNCHANGED <<RULE_INDEX, policy_search, pc, build, web>>

\* The max_results of the search_policies calls (5 is the default)
ResponseLimits == {1, 2, 5}

ResponseQueries == {"register deadline", "Register for the defense."}

\* A client calls the search_policies tool of either dispatcher
InvokeSearchTool ==
    /\ pc = "idle"
    /\ \E via \in {"call_tool", "call_mcp_tool"}, query \in ResponseQueries,
          max_results \in ResponseLimits :
        /\ via = "call_tool" => policy_search # <<>>
        /\ call' = [op |-> via, name |-> "search_policies",
                    arguments |-> [query |-> query, department |-> "",
                                   max_results |-> max_results],
                    methods |-> <<>>]
    /\ pc' = "called"
    /\ ret' = <<>>
    /\ UNCHANGED <<DOCUMENTS, CONFLICTS, RULE_INDEX, policy_search, build, web>>

NextResponse ==
    \/ LoadResponseFiles
    \/ Main
    \/ InvokeSearchTool
    \/ CallTool
    \/ EnsureEngine
    \/ CallMcpTool
    \/ InvokeSearch
    \/ Search

SpecResponse == Init /\ [][NextResponse]_vars

----------------------------------------------------------------------------
(* C22: the search response reports the conflicts of the returned results.  *)

\* A search_policies tool call has returned its response
SearchResponded ==
    /\ pc = "idle"
    /\ call.op \in {"call_tool", "call_mcp_tool"}
    /\ call.name = "search_policies"
    /\ "results" \in DOMAIN ret

\* The rule ids of the results in the response
ReturnedIds == {ret.results[i].rule_id : i \in 1..Len(ret.results)}

\* The rule ids the search scored above zero, returned or cut off
ScoredIds ==
    {RULE_INDEX[i][1] : i \in {j \in 1..Len(RULE_INDEX) :
        score_of(RULE_INDEX[j][2], call.arguments.query) > 0}}

\* The rule ids an entry of the registry names
IdsOf(conflict) == {conflict.rules[j].rule_id : j \in 1..Len(conflict.rules)}

\* C22: the response of search_policies holds the sorted list cut to
\* max_results; its conflicts are check_conflicts of the rule ids of that
\* list, or null when there is none; conflicts_detected tells whether there
\* is one; and every reported conflict names a returned rule.
C22_ConflictsOfReturned ==
    SearchResponded =>
        LET ids      == [i \in 1..Len(ret.results) |-> ret.results[i].rule_id]
            expected == check_conflicts(policy_search[1].conflicts, ids)
        IN  /\ ret.results = search(RULE_INDEX, call.arguments.query,
                                    call.arguments.department,
                                    call.arguments.max_results)
            /\ Len(ret.results) <= call.arguments.max_results
            /\ ret.conflicts_detected = (expected # <<>>)
            /\ ret.conflicts = IF expected = <<>> THEN <<>> ELSE <<expected>>
            /\ \A c \in 1..Len(expected) : IdsOf(expected[c]) \cap ReturnedIds # {}

\* A response that reports one conflict and leaves out another, all of whose
\* scored rules were cut off by the limit
C22_Witness ==
    /\ SearchResponded
    /\ ret.conflicts_detected
    /\ LET entries == conflict_entries(policy_search[1].conflicts)
       IN  \E c \in 1..Len(entries) :
            /\ IdsOf(entries[c]) \cap ReturnedIds = {}
            /\ IdsOf(entries[c]) \cap ScoredIds # {}
            /\ \A k \in 1..Len(ret.conflicts[1]) : ret.conflicts[1][k] # entries[c]

----------------------------------------------------------------------------
(* C23: the content preview and the full content of a search result.        *)

\* The result entries of the search that has just returned, called directly
\* or through a dispatcher
ResultEntries ==
    IF Searched THEN ret
    ELSE IF SearchResponded THEN ret.results
    ELSE <<>>

\* The content the index holds for a rule id
IndexedContent(rule_id) ==
    RULE_INDEX[CHOOSE i \in 1..Len(RULE_INDEX) : RULE_INDEX[i][1] = rule_id][2].content

\* C23: in every search result, full_content is the complete indexed content
\* of the rule; content is that content when it has at most 300 characters,
\* and else its first 300 characters followed by "...".
C23_Preview ==
    \A i \in 1..Len(ResultEntries) :
        LET full == IndexedContent(ResultEntries[i].rule_id)
        IN  /\ ResultEntries[i].full_content = full
            /\ ResultEntries[i].content =
                   IF Len(full) <= 300 THEN full
                   ELSE SubSeq(full, 1, 300) \o "..."

\* A search that returned a rule of less than 300, one of exactly 300 and
\* one of more than 300 characters, the last with a cut preview
C23_Witness ==
    /\ \E i \in 1..Len(ResultEntries) : Len(ResultEntries[i].full_content) < 300
    /\ \E i \in 1..Len(ResultEntries) : Len(ResultEntries[i].full_content) = 300
    /\ \E i \in 1..Len(ResultEntries) :
        /\ Len(ResultEntries[i].full_content) = 301
        /\ Len(ResultEntries[i].content) = 303

----------------------------------------------------------------------------
(* The query cache of webapp/app.py.  Time is counted in hours.             *)

\* The number of cached queries at which cache_response evicts (1000 in the
\* source); 20 keeps "oldest 10%" different from "oldest one"
MaxCacheSize == 20

\* The clock, which advances by 12 hours, stays within MaxTime hours
MaxTime == 36

\* cache_hits + cache_misses stays within MaxLookups
MaxLookups == 1

CACHE_ENABLED == TRUE

\* timedelta(hours=24)
CACHE_TTL == 24

MAX_CACHE_SIZE == MaxCacheSize

\* hashlib.md5(query.lower().strip().encode()).hexdigest(); the digest is
\* written as the text it was computed from
get_cache_key(query) == "md5:" \o strip(lower(query))

\* del d[k]
dict_del(d, k) == SelectSeq(d, LAMBDA e : e[1] # k)

\* Variant of is_valid: an entry of exactly CACHE_TTL is still served
is_valid_inclusive(cached, t) == t - cached.timestamp <= CACHE_TTL

\* datetime.now() - cached['timestamp'] < CACHE_TTL
is_valid(cached, t) == t - cached.timestamp < CACHE_TTL

\* get_cached_response(query) at time t: the value returned (<<>> is None)
\* and the cache and the counters after the call
get_cached_response(cache, hits, misses, query, t) ==
    LET key == get_cache_key(query)
    IN  IF ~CACHE_ENABLED
        THEN [value |-> <<>>, cache |-> cache, hits |-> hits, misses |-> misses]
        ELSE IF has_key(cache, key) /\ is_valid(dict_get(cache, key)[1], t)
        THEN [value |-> dict_get(cache, key), cache |-> cache,
              hits |-> hits + 1, misses |-> misses]
        ELSE [value |-> <<>>,
              cache |-> IF has_key(cache, key) THEN dict_del(cache, key) ELSE cache,
              hits |-> hits, misses |-> misses + 1]

\* Variant of sorted_entries: the entries in insertion order
sorted_entries_unsorted(cache) == cache

\* sorted(QUERY_CACHE.items(), key=lambda x: x[1]['timestamp']): a stable
\* sort, entry i goes to the place given by the number of entries before it
sorted_entries(cache) ==
    LET before(i) == {j \in 1..Len(cache) :
                        \/ cache[j][2].timestamp < cache[i][2].timestamp
                        \/ cache[j][2].timestamp = cache[i][2].timestamp /\ j < i}
    IN  [k \in 1..Len(cache) |->
            cache[CHOOSE i \in 1..Len(cache) : Cardinality(before(i)) = k - 1]]

\* max(1, len(sorted_entries) // 10)
num_to_remove(sorted) == IF Len(sorted) \div 10 > 1 THEN Len(sorted) \div 10 ELSE 1

\* evict_old_entries(): deletes the keys of the first num_to_remove sorted
\* entries
evict_old_entries(cache) ==
    LET sorted == sorted_entries(cache)
        gone   == {sorted[i][1] : i \in 1..num_to_remove(sorted)}
    IN  SelectSeq(cache, LAMBDA e : e[1] \notin gone)

\* Variant of cache_is_full: eviction starts above MAX_CACHE_SIZE
cache_is_full_above(cache) == Len(cache) > MAX_CACHE_SIZE

\* len(QUERY_CACHE) >= MAX_CACHE_SIZE
cache_is_full(cache) == Len(cache) >= MAX_CACHE_SIZE

\* cache_response(query, response, tool_uses, iterations) at time t: the
\* cache after the call
cache_response(cache, query, response, tool_uses, iterations, t) ==
    IF ~CACHE_ENABLED THEN cache
    ELSE dict_set(IF cache_is_full(cache) THEN evict_old_entries(cache) ELSE cache,
                  get_cache_key(query),
                  [response   |-> response,
                   tool_uses  |-> tool_uses,
                   iterations |-> iterations,
                   timestamp  |-> t,
                   query      |-> query])

----------------------------------------------------------------------------
(* The cache functions called one after the other.                          *)

\* The query cached as the i-th entry of a cache that is already in use
Stored(i) == "rule " \o Ch(DIGITS, (i \div 10) + 1) \o Ch(DIGITS, (i % 10) + 1)

\* A cache one entry short of full, as left by earlier requests: entries
\* were cached at 0, 12 and 24 hours, some of them again after they expired
UsedCache ==
    [i \in 1..(MAX_CACHE_SIZE - 1) |->
        <<get_cache_key(Stored(i)),
          [response |-> "answer", tool_uses |-> <<>>, iterations |-> 1,
           timestamp |-> ((i * 7) % 3) * 12, query |-> Stored(i)]>>]

InitCache ==
    /\ DOCUMENTS = <<>>
    /\ CONFLICTS = <<>>
    /\ RULE_INDEX = <<>>
    /\ policy_search = <<>>
    /\ pc = "idle"
    /\ call = [op |-> "none"]
    /\ ret = <<>>
    /\ build = <<>>
    /\ QUERY_CACHE \in {<<>>, UsedCache}
    /\ cache_hits = 0
    /\ cache_misses = 0
    /\ CONVERSATIONS = <<>>
    /\ now = 24
    /\ request = <<>>

\* The queries whose answers are cached: one that is among the oldest of
\* the used cache, spelled differently, and two new ones
CacheQueries == {"  RULE 03\n", "visa", "opt"}

\* The queries looked up: one cached 24 hours ago, one cached just now and
\* spelled differently, and a new one
CacheLookups == {"rule 03", "  RULE 02\n", "visa"}

\* Time passes
Tick ==
    /\ now + 12 <= MaxTime
    /\ now' = now + 12
    /\ UNCHANGED <<DOCUMENTS, CONFLICTS, RULE_INDEX, policy_search, pc, call, ret,
                   build, QUERY_CACHE, cache_hits, cache_misses, CONVERSATIONS,
                   request>>

GetCachedResponse ==
    /\ cache_hits + cache_misses < MaxLookups
    /\ \E query \in CacheLookups :
        LET r == get_cached_response(QUERY_CACHE, cache_hits, cache_misses, query, now)
        IN  /\ QUERY_CACHE' = r.cache
            /\ cache_hits' = r.hits
            /\ cache_misses' = r.misses
            /\ ret' = r.value
            /\ call' = [op |-> "get_cached_response", query |-> query]
    /\ UNCHANGED <<DOCUMENTS, CONFLICTS, RULE_INDEX, policy_search, pc, build,
                   CONVERSATIONS, now, request>>

CacheResponse ==
    /\ \E query \in CacheQueries :
        /\ QUERY_CACHE' = cache_response(QUERY_CACHE, query, "answer", <<>>, 1, now)
        /\ call' = [op |-> "cache_response", query |-> query]
    /\ ret' = <<>>
    /\ UNCHANGED <<DOCUMENTS, CONFLICTS, RULE_INDEX, policy_search, pc, build,
                   cache_hits, cache_misses, CONVERSATIONS, now, request>>

\* clear_cache(): QUERY_CACHE.clear(); the counters are reported, not reset
ClearCache ==
    /\ QUERY_CACHE' = <<>>
    /\ call' = [op |-> "clear_cache"]
    /\ ret' = [status |-> "cache cleared", entries_removed |-> Len(QUERY_CACHE),
               cache_hits_reset |-> cache_hits, cache_misses_reset |-> cache_misses]
    /\ UNCHANGED <<DOCUMENTS, CONFLICTS, RULE_INDEX, policy_search, pc, build,
                   cache_hits, cache_misses, CONVERSATIONS, now, request>>

NextCache ==
    \/ Tick
    \/ GetCachedResponse
    \/ CacheResponse
    \/ ClearCache

SpecCache == InitCache /\ [][NextCache]_vars

----------------------------------------------------------------------------
(* C27: the cache never holds more than MAX_CACHE_SIZE entries.             *)

\* C27: after any sequence of cache_response, get_cached_response and
\* clear_cache calls the cache holds at most MAX_CACHE_SIZE entries.
C27_CacheBounded == Len(QUERY_CACHE) <= MAX_CACHE_SIZE

\* cache_response has filled the cache to MAX_CACHE_SIZE entries
C27_Witness ==
    /\ call.op = "cache_response"
    /\ Len(QUERY_CACHE) = MAX_CACHE_SIZE

----------------------------------------------------------------------------
(* C28: a lookup never serves an entry of CACHE_TTL or more.                *)

\* The step is a call of get_cached_response
LookupStep == call'.op = "get_cached_response" /\ now' = now

\* C28: get_cached_response returns no entry whose age is 24 hours or more;
\* a lookup that finds such an entry deletes it, counts a miss and returns
\* None; and every lookup adds one to exactly one of cache_hits and
\* cache_misses.
C28_NoExpiredEntry ==
    [][LookupStep =>
        LET key     == get_cache_key(call'.query)
            expired == /\ has_key(QUERY_CACHE, key)
                       /\ now - dict_get(QUERY_CACHE, key)[1].timestamp >= 24
        IN  /\ ret' # <<>> =>
                /\ now - ret'[1].timestamp < 24
                /\ ret' = dict_get(QUERY_CACHE, key)
            /\ expired =>
                /\ ret' = <<>>
                /\ ~has_key(QUERY_CACHE', key)
                /\ cache_misses' = cache_misses + 1
                /\ cache_hits' = cache_hits
            /\ \/ cache_hits' = cache_hits + 1 /\ cache_misses' = cache_misses
               \/ cache_hits' = cache_hits /\ cache_misses' = cache_misses + 1
            /\ (cache_hits' = cache_hits + 1) = (ret' # <<>>)]_vars

\* A lookup has found the entry cached 24 hours ago in the used cache, has
\* deleted it and has counted a miss
C28_Witness ==
    /\ call.op = "get_cached_response"
    /\ call.query = "rule 03"
    /\ ret = <<>>
    /\ cache_misses = 1
    /\ cache_hits = 0
    /\ Len(QUERY_CACHE) = MAX_CACHE_SIZE - 2
    /\ ~has_key(QUERY_CACHE, get_cache_key("rule 03"))

----------------------------------------------------------------------------
(* C29: eviction removes the oldest tenth of a full cache.                  *)

\* The step is a call of cache_response
CacheStep == call'.op = "cache_response" /\ now' = now

\* C29: when cache_response is called with n >= MAX_CACHE_SIZE entries in
\* the cache, a set of exactly max(1, n \div 10) entries is evicted, each of
\* them with a timestamp no later than that of every entry that is not, the
\* other entries stay as they were, and the answer is then stored under its
\* key.
C29_OldestEvicted ==
    [][(CacheStep /\ Len(QUERY_CACHE) >= MAX_CACHE_SIZE) =>
        LET n      == Len(QUERY_CACHE)
            k      == IF n \div 10 > 1 THEN n \div 10 ELSE 1
            key    == get_cache_key(call'.query)
            Keys   == {QUERY_CACHE[i][1] : i \in 1..n}
            Gone   == {x \in Keys \ {key} : ~has_key(QUERY_CACHE', x)}
            Ts(x)  == dict_get(QUERY_CACHE, x)[1].timestamp
        IN  /\ has_key(QUERY_CACHE', key)
            /\ dict_get(QUERY_CACHE', key)[1].timestamp = now
            /\ \E Evicted \in {Gone} \cup (IF key \in Keys THEN {Gone \cup {key}} ELSE {}) :
                /\ Cardinality(Evicted) = k
                /\ \A e \in Evicted : \A r \in Keys \ Evicted : Ts(e) <= Ts(r)
                /\ Len(QUERY_CACHE') =
                       IF key \in Keys \ Evicted THEN n - k ELSE n - k + 1
                /\ \A x \in Keys \ (Evicted \cup {key}) :
                       dict_get(QUERY_CACHE', x) = dict_get(QUERY_CACHE, x)]_vars

\* cache_response was called on a full cache: the two new answers are stored
\* and a tenth of the entries of the used cache is gone
C29_Witness ==
    /\ call.op = "cache_response"
    /\ has_key(QUERY_CACHE, get_cache_key("visa"))
    /\ has_key(QUERY_CACHE, get_cache_key("opt"))
    /\ Len(QUERY_CACHE) = MAX_CACHE_SIZE - (MAX_CACHE_SIZE \div 10) + 1
    /\ Cardinality({i \in 1..(MAX_CACHE_SIZE - 1) :
                       ~has_key(QUERY_CACHE, get_cache_key(Stored(i)))})
           = MAX_CACHE_SIZE \div 10

----------------------------------------------------------------------------
(* The conversation store of webapp/app.py.                                 *)

\* A session takes a request while all sessions together hold fewer than
\* MaxStored messages
MaxStored == 3

\* At most MaxSessions sessions are created
MaxSessions == 2

\* str(uuid.uuid4()): an id no session has had
uuid4(conversations) == "session-" \o Ch(DIGITS, Len(conversations) + 2)

\* get_or_create_session(session_id): the id of the session and the store
\* after the call; session_id <<>> is None
get_or_create_session(conversations, session_id) ==
    IF session_id = <<>> \/ ~has_key(conversations, session_id[1])
    THEN [session_id    |-> uuid4(conversations),
          conversations |-> dict_set(conversations, uuid4(conversations), <<>>)]
    ELSE [session_id |-> session_id[1], conversations |-> conversations]

\* add_to_conversation(session_id, role, content) at time t
add_to_conversation(conversations, session_id, role, content, t) ==
    LET stored == IF has_key(conversations, session_id)
                  THEN dict_get(conversations, session_id)[1] ELSE <<>>
    IN  dict_set(conversations, session_id,
                 Append(stored, [role |-> role, content |-> content, timestamp |-> t]))

\* max_messages of get_conversation_history
MAX_MESSAGES == 20

\* get_conversation_history(session_id): the last max_messages stored
\* messages, role and content only
get_conversation_history(conversations, session_id) ==
    IF ~has_key(conversations, session_id) THEN <<>>
    ELSE LET stored == dict_get(conversations, session_id)[1]
             last   == IF Len(stored) > MAX_MESSAGES
                       THEN SubSeq(stored, Len(stored) - MAX_MESSAGES + 1, Len(stored))
                       ELSE stored
         IN  [i \in 1..Len(last) |-> [role |-> last[i].role, content |-> last[i].content]]

----------------------------------------------------------------------------
(* The model loop shared by /api/query and /api/batch: the replies of the   *)
(* Anthropic API, which are inputs, and what the loop does with a reply.    *)

\* max_iterations of both handlers
MAX_ITERATIONS == 15

\* The calls of a request at which the API may give its final answer; at
\* every call it may ask for a tool or fail
AnswerAt == {1, MAX_ITERATIONS}

TOOL_USE_BLOCK ==
    [type |-> "tool_use", id |-> "toolu_1", name |-> "get_rule",
     input |-> [rule_id |-> "GSAS:DEADLINE-001"]]

\* The replies of client.messages.create at the given call: a final answer,
\* a request for a tool, a reply that stops for tool use without a tool_use
\* block, or an exception
Replies(iteration) ==
    {[raises |-> TRUE, message |-> "Connection error."],
     [raises |-> FALSE, stop_reason |-> "tool_use",
      content |-> <<[type |-> "text", text |-> "I will look it up."], TOOL_USE_BLOCK>>]}
    \cup (IF iteration \in AnswerAt
          THEN {[raises |-> FALSE, stop_reason |-> "end_turn",
                 content |-> <<[type |-> "text", text |-> "The deadline is in May."]>>],
                [raises |-> FALSE, stop_reason |-> "tool_use",
                 content |-> <<[type |-> "text", text |-> "No tool is needed."]>>]}
          ELSE {})

\* The blocks of response.content that are tool_use blocks
tool_use_blocks(content) == SelectSeq(content, LAMBDA b : b.type = "tool_use")

\* The entries the loop appends to tool_uses for a reply
tool_uses_of(content) ==
    LET blocks == tool_use_blocks(content)
    IN  [i \in 1..Len(blocks) |-> [name |-> blocks[i].name, input |-> blocks[i].input]]

\* "if response.stop_reason == 'tool_use'" and "if tool_use_blocks": the
\* loop calls tools and continues
wants_tools(reply) ==
    reply.stop_reason = "tool_use" /\ tool_use_blocks(reply.content) # <<>>

\* final_response: the texts of the blocks that have a text
RECURSIVE final_response(_)
final_response(content) ==
    IF content = <<>> THEN ""
    ELSE (IF "text" \in DOMAIN content[1] THEN content[1].text ELSE "")
         \o final_response(Tail(content))

\* The tool_result block appended for a tool call; json.dumps(tool_result)
\* is written as the value it encodes
tool_result(block, result) ==
    [type |-> "tool_result", tool_use_id |-> block.id, content |-> [json |-> result]]

----------------------------------------------------------------------------
(* The handler of /api/query.  An HTTP response is [status, body].          *)

\* Variant of is_first_message: the cache is consulted for every message
is_first_message_always(conversation_history) == TRUE

\* "if len(conversation_history) == 0": cache only for the first message
is_first_message(conversation_history) == Len(conversation_history) = 0

\* "if len(get_conversation_history(session_id)) == 2": user + assistant
is_first_answer(conversation_history) == Len(conversation_history) = 2

\* Variant of loop_continues: the loop makes one call more
loop_continues_once_more(iteration) == iteration <= MAX_ITERATIONS

\* "while iteration < max_iterations"
loop_continues(iteration) == iteration < MAX_ITERATIONS

\* The number of messages stored in the sessions that have not reached
\* max_messages
RECURSIVE stored_messages(_)
stored_messages(conversations) ==
    IF conversations = <<>> THEN 0
    ELSE (IF Len(conversations[1][2]) < MAX_MESSAGES
          THEN Len(conversations[1][2]) ELSE 0)
         + stored_messages(Tail(conversations))

\* The requests the clients send within the bounds: to a session that holds
\* exactly max_messages messages, or while few messages are stored and, for
\* a new session, few sessions exist
within_bounds(conversations, session_id) ==
    IF session_id # <<>> /\ has_key(conversations, session_id[1])
    THEN \/ Len(dict_get(conversations, session_id[1])[1]) = MAX_MESSAGES
         \/ /\ Len(dict_get(conversations, session_id[1])[1]) < MAX_MESSAGES
            /\ stored_messages(conversations) < MaxStored
    ELSE /\ stored_messages(conversations) < MaxStored
         /\ Len(conversations) < MaxSessions

\* The query texts of the clients: none, and one question spelled two ways
QueryTexts == {"", "opt deadline", " OPT Deadline"}

\* The session_id of a request: none, one the server does not know, or one
\* of a stored session
SessionArgs(conversations) ==
    {<<>>, <<"session-9">>} \cup {<<conversations[i][1]>> : i \in 1..Len(conversations)}

\* The frame of the model loop at its start
loop_frame(endpoint, session_id, user_query, messages) ==
    [endpoint |-> endpoint, session_id |-> session_id, user_query |-> user_query,
     messages |-> messages, tool_uses |-> <<>>, iteration |-> 0, stage |-> "loop",
     pending |-> <<>>, tool_results |-> <<>>]

\* query(), up to the model loop: validation, the session, the cache lookup
\* for a first message (a hit is stored in the conversation and returned),
\* else the user message is stored and the loop starts on the history
Query ==
    /\ pc = "idle"
    /\ request = <<>>
    /\ \E user_query \in QueryTexts, session_arg \in SessionArgs(CONVERSATIONS) :
        IF user_query = ""
        THEN /\ ret' = [status |-> 400, body |-> [error |-> "Query is required"]]
             /\ UNCHANGED <<QUERY_CACHE, cache_hits, cache_misses, CONVERSATIONS,
                            request>>
        ELSE /\ within_bounds(CONVERSATIONS, session_arg)
             /\ LET s       == get_or_create_session(CONVERSATIONS, session_arg)
                    id      == s.session_id
                    history == get_conversation_history(s.conversations, id)
                    lookup  == IF is_first_message(history)
                               THEN get_cached_response(QUERY_CACHE, cache_hits,
                                                        cache_misses, user_query, now)
                               ELSE [value |-> <<>>, cache |-> QUERY_CACHE,
                                     hits |-> cache_hits, misses |-> cache_misses]
                    asked   == add_to_conversation(s.conversations, id, "user",
                                                   user_query, now)
                IN  /\ QUERY_CACHE' = lookup.cache
                    /\ cache_hits' = lookup.hits
                    /\ cache_misses' = lookup.misses
                    /\ IF lookup.value # <<>>
                       THEN LET cached == lookup.value[1]
                            IN  /\ CONVERSATIONS' =
                                       add_to_conversation(asked, id, "assistant",
                                                           cached.response, now)
                                /\ ret' = [status |-> 200,
                                           body |-> [response |-> cached.response,
                                                     tool_uses |-> cached.tool_uses,
                                                     iterations |-> cached.iterations,
                                                     cached |-> TRUE,
                                                     session_id |-> id,
                                                     cache_timestamp |-> cached.timestamp]]
                                /\ request' = <<>>
                       ELSE /\ CONVERSATIONS' = asked
                            /\ ret' = <<>>
                            /\ request' =
                                <<loop_frame("/api/query", id, user_query,
                                             get_conversation_history(asked, id))>>
    /\ UNCHANGED <<DOCUMENTS, CONFLICTS, RULE_INDEX, policy_search, pc, call, build, now>>

\* The tool call the loop makes for a tool_use block
tool_call(block) ==
    [op |-> "call_mcp_tool", name |-> block.name, arguments |-> block.input,
     methods |-> <<>>]

\* One pass of the while loop of query(): the model is called; an exception
\* ends the request with HTTP 500; a reply that wants tools is recorded and
\* its first tool is called; any other reply is the final answer, which is
\* stored in the conversation, cached if it answers the first message, and
\* returned
ModelCall ==
    /\ pc = "idle"
    /\ request # <<>>
    /\ request[1].endpoint = "/api/query"
    /\ request[1].stage = "loop"
    /\ loop_continues(request[1].iteration)
    /\ LET frame     == request[1]
           iteration == frame.iteration + 1
       IN  \E reply \in Replies(iteration) :
            IF reply.raises
            THEN /\ ret' = [status |-> 500, body |-> [error |-> reply.message]]
                 /\ request' = <<>>
                 /\ UNCHANGED <<QUERY_CACHE, CONVERSATIONS, pc, call>>
            ELSE IF wants_tools(reply)
            THEN /\ request' =
                    <<[frame EXCEPT
                        !.iteration = iteration,
                        !.tool_uses = frame.tool_uses \o tool_uses_of(reply.content),
                        !.messages = Append(frame.messages,
                                        [role |-> "assistant", content |-> reply.content]),
                        !.stage = "tools",
                        !.pending = tool_use_blocks(reply.content),
                        !.tool_results = <<>>]>>
                 /\ call' = tool_call(tool_use_blocks(reply.content)[1])
                 /\ pc' = "called"
                 /\ ret' = <<>>
                 /\ UNCHANGED <<QUERY_CACHE, CONVERSATIONS>>
            ELSE LET final    == final_response(reply.content)
                     answered == add_to_conversation(CONVERSATIONS, frame.session_id,
                                                     "assistant", final, now)
                 IN  /\ CONVERSATIONS' = answered
                     /\ QUERY_CACHE' =
                            IF is_first_answer(get_conversation_history(answered,
                                                                        frame.session_id))
                            THEN cache_response(QUERY_CACHE, frame.user_query, final,
                                                frame.tool_uses, iteration, now)
                            ELSE QUERY_CACHE
                     /\ ret' = [status |-> 200,
                                body |-> [response |-> final,
                                          tool_uses |-> frame.tool_uses,
                                          iterations |-> iteration,
                                          session_id |-> frame.session_id,
                                          cached |-> FALSE]]
                     /\ request' = <<>>
                     /\ UNCHANGED <<pc, call>>
    /\ UNCHANGED <<DOCUMENTS, CONFLICTS, RULE_INDEX, policy_search, build,
                   cache_hits, cache_misses, now>>

\* The loop of either handler after call_mcp_tool has returned: the result
\* is collected; the next pending tool is called, or all results are
\* appended as one user message and the loop continues
ToolResults ==
    /\ pc = "idle"
    /\ request # <<>>
    /\ request[1].stage = "tools"
    /\ LET frame   == request[1]
           results == Append(frame.tool_results, tool_result(frame.pending[1], ret))
       IN  IF Len(frame.pending) > 1
           THEN /\ request' = <<[frame EXCEPT !.pending = Tail(frame.pending),
                                              !.tool_results = results]>>
                /\ call' = tool_call(frame.pending[2])
                /\ pc' = "called"
                /\ ret' = <<>>
           ELSE /\ request' =
                    <<[frame EXCEPT
                        !.messages = Append(frame.messages,
                                            [role |-> "user", content |-> results]),
                        !.stage = "loop",
                        !.pending = <<>>,
                        !.tool_results = <<>>]>>
                /\ UNCHANGED <<pc, call, ret>>
    /\ UNCHANGED <<DOCUMENTS, CONFLICTS, RULE_INDEX, policy_search, build,
                   QUERY_CACHE, cache_hits, cache_misses, CONVERSATIONS, now>>

\* query() after the loop has ended without a final answer
MaxIterationsReached ==
    /\ pc = "idle"
    /\ request # <<>>
    /\ request[1].endpoint = "/api/query"
    /\ request[1].stage = "loop"
    /\ ~loop_continues(request[1].iteration)
    /\ ret' = [status |-> 500,
               body |-> [error |-> "Max iterations (15) reached. The query was too complex or encountered an error.",
                         tool_uses |-> request[1].tool_uses,
                         iterations |-> MAX_ITERATIONS]]
    /\ request' = <<>>
    /\ UNCHANGED <<DOCUMENTS, CONFLICTS, RULE_INDEX, policy_search, pc, call, build,
                   QUERY_CACHE, cache_hits, cache_misses, CONVERSATIONS, now>>

\* A conversation of ten questions and answers, as stored by ten requests
LongSession ==
    [i \in 1..MAX_MESSAGES |->
        [role |-> IF i % 2 = 1 THEN "user" ELSE "assistant",
         content |-> IF i % 2 = 1 THEN "opt deadline" ELSE "The deadline is in May.",
         timestamp |-> 0]]

\* The files the application was started on
StartFiles == [gsas |-> GSAS_A, isso |-> ABSENT, phd_seas |-> ABSENT,
               conflicts |-> REGISTRY_A]

\* The web application run as a script: init_mcp_server has loaded the
\* files and built the engine, with the registry object it had imported
\* before the load; no session is stored, or one of ten exchanges
InitQuery ==
    /\ DOCUMENTS = load_documents(<<>>, StartFiles)
    /\ CONFLICTS = load_conflicts(<<>>, StartFiles)
    /\ RULE_INDEX = build_rule_index(<<>>, load_documents(<<>>, StartFiles))
    /\ policy_search = <<[documents |-> load_documents(<<>>, StartFiles),
                          conflicts |-> <<>>]>>
    /\ pc = "idle"
    /\ call = [op |-> "none"]
    /\ ret = <<>>
    /\ build = <<>>
    /\ QUERY_CACHE = <<>>
    /\ cache_hits = 0
    /\ cache_misses = 0
    /\ CONVERSATIONS \in {<<>>, << <<"session-1", LongSession>> >>}
    /\ now = 0
    /\ request = <<>>

NextQuery ==
    \/ Query
    \/ ModelCall
    \/ EnsureEngine
    \/ CallMcpTool
    \/ ToolResults
    \/ MaxIterationsReached

SpecQuery == InitQuery /\ [][NextQuery]_vars

----------------------------------------------------------------------------
(* Vocabulary of the properties of /api/query.                              *)

\* A request of /api/query is in its model loop
InQuery == request # <<>> /\ request[1].endpoint = "/api/query"

\* The messages stored for a session (none for an unknown session)
StoredOf(conversations, session_id) ==
    IF has_key(conversations, session_id)
    THEN dict_get(conversations, session_id)[1] ELSE <<>>

\* The roles of a message list
RolesOf(messages) == [i \in 1..Len(messages) |-> messages[i].role]

\* A list of roles that begins with "user" and strictly alternates
Alternating(roles) ==
    \A i \in 1..Len(roles) : roles[i] = IF i % 2 = 1 THEN "user" ELSE "assistant"

----------------------------------------------------------------------------
(* C25: the message list passed to the model alternates from a user message. *)

\* C25: whenever query() is about to call the model, its message list is not
\* empty, begins with a user message and strictly alternates user and
\* assistant messages.
C25_Original ==
    (InQuery /\ request[1].stage = "loop" /\ loop_continues(request[1].iteration))
        => /\ request[1].messages # <<>>
           /\ Alternating(RolesOf(request[1].messages))

----------------------------------------------------------------------------
(* C26: the tool-calling loop of /api/query terminates.                     *)

\* The step ends a request of /api/query that had entered its loop
QueryEnds == InQuery /\ request' = <<>>

\* The request ends with the final text response, after at most 15 calls
FinalResponse ==
    /\ ret'.status = 200
    /\ ret'.body.cached = FALSE
    /\ ret'.body.iterations = request[1].iteration + 1
    /\ ret'.body.iterations <= 15

\* The request ends with the 'Max iterations' error after the 15th call
\* asked for tools, and writes nothing to the cache
MaxIterationsError ==
    /\ ret'.status = 500
    /\ ret'.body.error =
         "Max iterations (15) reached. The query was too complex or encountered an error."
    /\ request[1].iteration = 15
    /\ request[1].messages[Len(request[1].messages)].role = "user"
    /\ request[1].messages[Len(request[1].messages)].content[1].type = "tool_result"
    /\ QUERY_CACHE' = QUERY_CACHE

\* The request ends with the message of an exception a model call raised,
\* and writes nothing to the cache
ExceptionError ==
    /\ ret'.status = 500
    /\ ret'.body.error = "Connection error."
    /\ request[1].iteration < 15
    /\ QUERY_CACHE' = QUERY_CACHE

\* The progress of a request: four steps for each model call
Progress(frame, at) ==
    4 * frame.iteration
      + (IF frame.stage = "loop" THEN 3
         ELSE IF at = "called" THEN 0 ELSE IF at = "ready" THEN 1 ELSE 2)

\* The model was called at most 15 times, each round of tool use took one
\* call, and a step that does not end the request advances it
LoopBounded ==
    /\ request' # <<>> /\ request'[1].endpoint = "/api/query" =>
        /\ request'[1].iteration <= 15
        /\ Len(request'[1].tool_uses) = request'[1].iteration
    /\ InQuery /\ request' # <<>> =>
        /\ Progress(request'[1], pc') > Progress(request[1], pc)
        /\ Progress(request'[1], pc') <= 4 * 15 + 3

\* C26 as stated: the loop is bounded by 15 model calls and the request ends
\* either with the final text response or with the 'Max iterations' error.
C26_Original ==
    [][/\ LoopBounded
       /\ QueryEnds => (FinalResponse \/ MaxIterationsError)]_vars

\* C26 amended: the loop is bounded by 15 model calls and the request ends
\* with the final text response, with the 'Max iterations' error, or with
\* the error of an exception raised by a model call; neither error writes a
\* cache entry.
C26_LoopTerminates ==
    [][/\ LoopBounded
       /\ QueryEnds => (FinalResponse \/ MaxIterationsError \/ ExceptionError)]_vars

\* A request has ended with the 'Max iterations' error after 15 rounds of
\* tool use, and the cache is still empty
C26_Witness ==
    /\ request = <<>>
    /\ ret # <<>>
    /\ ret.status = 500
    /\ "iterations" \in DOMAIN ret.body
    /\ ret.body.iterations = 15
    /\ Len(ret.body.tool_uses) = 15
    /\ QUERY_CACHE = <<>>
    /\ cache_misses = 1

----------------------------------------------------------------------------
(* C30: the cache serves and stores first messages only.                    *)

\* The session of the request the step belongs to
SessionOfStep ==
    IF request # <<>> THEN request[1].session_id
    ELSE IF request' # <<>> THEN request'[1].session_id
    ELSE ret'.body.session_id

\* The step has looked the query up in the cache
Consults == cache_hits' + cache_misses' # cache_hits + cache_misses

\* The step has answered from the cache
ServesCached ==
    /\ request = <<>>
    /\ request' = <<>>
    /\ CONVERSATIONS' # CONVERSATIONS

\* The entries the step has written to the cache
Written ==
    {i \in 1..Len(QUERY_CACHE') :
        \A j \in 1..Len(QUERY_CACHE) : QUERY_CACHE[j] # QUERY_CACHE'[i]}

\* C30: in /api/query the cache is looked up only for a session with no
\* stored message; an answer served from the cache is the session's first;
\* and an entry is written only by a request whose session then holds
\* exactly its user message and its answer, which is the entry written.
C30_FirstMessageOnly ==
    [][/\ Consults => StoredOf(CONVERSATIONS, SessionOfStep) = <<>>
       /\ ServesCached =>
            /\ StoredOf(CONVERSATIONS, SessionOfStep) = <<>>
            /\ ret'.body.cached = TRUE
            /\ RolesOf(StoredOf(CONVERSATIONS', SessionOfStep)) = <<"user", "assistant">>
            /\ StoredOf(CONVERSATIONS', SessionOfStep)[2].content = ret'.body.response
       /\ Written # {} =>
            /\ InQuery
            /\ Cardinality(Written) = 1
            /\ LET stored == StoredOf(CONVERSATIONS', request[1].session_id)
                   entry  == QUERY_CACHE'[CHOOSE i \in Written : TRUE][2]
               IN  /\ RolesOf(stored) = <<"user", "assistant">>
                   /\ stored[1].content = request[1].user_query
                   /\ entry.query = stored[1].content
                   /\ entry.response = stored[2].content]_vars

\* A follow-up message has been answered: the cache was looked up once, for
\* the first message, and holds the answer to the first message only
C30_Witness ==
    /\ request = <<>>
    /\ ret # <<>>
    /\ ret.status = 200
    /\ ret.body.cached = FALSE
    /\ cache_hits + cache_misses = 1
    /\ Len(QUERY_CACHE) = 1
    /\ LET stored == StoredOf(CONVERSATIONS, ret.body.session_id)
       IN  /\ RolesOf(stored) = <<"user", "assistant", "user", "assistant">>
           /\ stored[3].content # stored[1].content
           /\ get_cache_key(stored[3].content) = get_cache_key(stored[1].content)
           /\ QUERY_CACHE[1][2].query = stored[1].content

----------------------------------------------------------------------------
(* The handler of /api/batch.  The queries of a batch are processed one     *)
(* after the other, each with its own model loop and no conversation.       *)

\* The cache lookups after which the clients send no further batch
MaxBatch == 2

\* "if len(queries) > 50"
MAX_BATCH_QUERIES == 50

\* The batches of the clients: none, one query, one question spelled two
\* ways, and a batch of 51 queries
BatchQueries ==
    {<<>>, <<"visa">>, <<"visa", "  VISA ">>,
     [i \in 1..(MAX_BATCH_QUERIES + 1) |-> "visa"]}

\* The frame of batch_query(): its locals before the loop over the queries
batch_frame(queries) ==
    [endpoint |-> "/api/batch", queries |-> queries, idx |-> 0, results |-> <<>>,
     successful |-> 0, failed |-> 0, user_query |-> "", messages |-> <<>>,
     tool_uses |-> <<>>, iteration |-> 0, stage |-> "next", pending |-> <<>>,
     tool_results |-> <<>>]

\* The result entry of a query that failed
error_entry(frame, message) ==
    [query_index |-> frame.idx + 1, query |-> frame.user_query, error |-> message,
     cached |-> FALSE]

\* The statement after the while loop, "if iteration >= max_iterations",
\* reached when the loop ends and after its break; then the next query
after_loop(frame) ==
    LET checked == IF frame.iteration >= MAX_ITERATIONS
                   THEN [frame EXCEPT
                            !.results = Append(frame.results,
                                          error_entry(frame, "Max iterations reached")),
                            !.failed = frame.failed + 1]
                   ELSE frame
    IN  [checked EXCEPT !.idx = frame.idx + 1, !.stage = "next"]

\* batch_query(), up to the loop over the queries: the checks of the list
BatchQuery ==
    /\ pc = "idle"
    /\ request = <<>>
    /\ cache_hits + cache_misses < MaxBatch
    /\ \E queries \in BatchQueries :
        IF queries = <<>>
        THEN /\ ret' = [status |-> 400, body |-> [error |-> "No queries provided"]]
             /\ UNCHANGED request
        ELSE IF Len(queries) > MAX_BATCH_QUERIES
        THEN /\ ret' = [status |-> 400,
                        body |-> [error |-> "Maximum 50 queries allowed per batch"]]
             /\ UNCHANGED request
        ELSE /\ ret' = <<>>
             /\ request' = <<batch_frame(queries)>>
    /\ UNCHANGED <<DOCUMENTS, CONFLICTS, RULE_INDEX, policy_search, pc, call, build,
                   QUERY_CACHE, cache_hits, cache_misses, CONVERSATIONS, now>>

\* The head of the loop over the queries: after the last query the response
\* is returned; else the query is looked up in the cache, a hit is appended
\* to the results, and a miss starts the model loop of the query
BatchNext ==
    /\ pc = "idle"
    /\ request # <<>>
    /\ request[1].endpoint = "/api/batch"
    /\ request[1].stage = "next"
    /\ LET frame == request[1]
       IN  IF frame.idx = Len(frame.queries)
           THEN /\ ret' = [status |-> 200,
                           body |-> [results |-> frame.results,
                                     total_queries |-> Len(frame.queries),
                                     successful |-> frame.successful,
                                     failed |-> frame.failed,
                                     total_time_seconds |-> 0]]
                /\ request' = <<>>
                /\ UNCHANGED <<QUERY_CACHE, cache_hits, cache_misses>>
           ELSE LET user_query == frame.queries[frame.idx + 1]
                    lookup     == get_cached_response(QUERY_CACHE, cache_hits,
                                                      cache_misses, user_query, now)
                IN  /\ QUERY_CACHE' = lookup.cache
                    /\ cache_hits' = lookup.hits
                    /\ cache_misses' = lookup.misses
                    /\ ret' = <<>>
                    /\ IF lookup.value # <<>>
                       THEN LET cached == lookup.value[1]
                            IN  request' =
                                 <<[frame EXCEPT
                                     !.results = Append(frame.results,
                                        [query_index |-> frame.idx + 1,
                                         query |-> user_query,
                                         response |-> cached.response,
                                         tool_uses |-> cached.tool_uses,
                                         iterations |-> cached.iterations,
                                         cached |-> TRUE]),
                                     !.successful = frame.successful + 1,
                                     !.idx = frame.idx + 1]>>
                       ELSE request' =
                             <<[frame EXCEPT
                                 !.user_query = user_query,
                                 !.messages = <<[role |-> "user",
                                                 content |-> user_query]>>,
                                 !.tool_uses = <<>>,
                                 !.iteration = 0,
                                 !.stage = "loop"]>>
    /\ UNCHANGED <<DOCUMENTS, CONFLICTS, RULE_INDEX, policy_search, pc, call, build,
                   CONVERSATIONS, now>>

\* One pass of the while loop of batch_query(): the model is called; an
\* exception appends an error entry and goes to the next query; a reply
\* that wants tools is recorded and its first tool is called; any other
\* reply is the final answer, which is cached and appended before the break
BatchModelCall ==
    /\ pc = "idle"
    /\ request # <<>>
    /\ request[1].endpoint = "/api/batch"
    /\ request[1].stage = "loop"
    /\ loop_continues(request[1].iteration)
    /\ LET frame     == request[1]
           iteration == frame.iteration + 1
       IN  \E reply \in Replies(iteration) :
            IF reply.raises
            THEN /\ request' =
                    <<[frame EXCEPT
                        !.results = Append(frame.results,
                                           error_entry(frame, reply.message)),
                        !.failed = frame.failed + 1,
                        !.idx = frame.idx + 1,
                        !.stage = "next"]>>
                 /\ UNCHANGED <<QUERY_CACHE, pc, call>>
            ELSE IF wants_tools(reply)
            THEN /\ request' =
                    <<[frame EXCEPT
                        !.iteration = iteration,
                        !.tool_uses = frame.tool_uses \o tool_uses_of(reply.content),
                        !.messages = Append(frame.messages,
                                        [role |-> "assistant", content |-> reply.content]),
                        !.stage = "tools",
                        !.pending = tool_use_blocks(reply.content),
                        !.tool_results = <<>>]>>
                 /\ call' = tool_call(tool_use_blocks(reply.content)[1])
                 /\ pc' = "called"
                 /\ UNCHANGED QUERY_CACHE
            ELSE LET final == final_response(reply.content)
                 IN  /\ QUERY_CACHE' = cache_response(QUERY_CACHE, frame.user_query,
                                                      final, frame.tool_uses,
                                                      iteration, now)
                     /\ request' =
                         <<after_loop(
                            [frame EXCEPT
                              !.iteration = iteration,
                              !.results = Append(frame.results,
                                 [query_index |-> frame.idx + 1,
                                  query |-> frame.user_query,
                                  response |-> final,
                                  tool_uses |-> frame.tool_uses,
                                  iterations |-> iteration,
                                  cached |-> FALSE]),
                              !.successful = frame.successful + 1])>>
                     /\ UNCHANGED <<pc, call>>
    /\ ret' = <<>>
    /\ UNCHANGED <<DOCUMENTS, CONFLICTS, RULE_INDEX, policy_search, build,
                   cache_hits, cache_misses, CONVERSATIONS, now>>

\* batch_query() after the while loop of a query has ended without a final
\* answer
BatchLoopExhausted ==
    /\ pc = "idle"
    /\ request # <<>>
    /\ request[1].endpoint = "/api/batch"
    /\ request[1].stage = "loop"
    /\ ~loop_continues(request[1].iteration)
    /\ request' = <<after_loop(request[1])>>
    /\ UNCHANGED <<DOCUMENTS, CONFLICTS, RULE_INDEX, policy_search, pc, call, ret,
                   build, QUERY_CACHE, cache_hits, cache_misses, CONVERSATIONS, now>>

\* The web application after init_mcp_server, with no session stored
InitBatch ==
    /\ InitQuery
    /\ CONVERSATIONS = <<>>

NextBatch ==
    \/ BatchQuery
    \/ BatchNext
    \/ BatchModelCall
    \/ EnsureEngine
    \/ CallMcpTool
    \/ ToolResults
    \/ BatchLoopExhausted

SpecBatch == InitBatch /\ [][NextBatch]_vars

----------------------------------------------------------------------------
(* C24: the batch response accounts for every query exactly once.           *)

\* The step returns the response of a batch whose queries were processed
BatchEnds ==
    /\ request # <<>>
    /\ request[1].endpoint = "/api/batch"
    /\ request' = <<>>

\* C24: after all queries of a batch are processed, the result list has
\* exactly one entry per submitted query and successful + failed =
\* total_queries, whatever the outcome of each query's model loop.
C24_Original ==
    [][BatchEnds =>
        /\ ret'.body.total_queries = Len(request[1].queries)
        /\ Len(ret'.body.results) = ret'.body.total_queries
        /\ \A i \in 1..Len(ret'.body.results) : ret'.body.results[i].query_index = i
        /\ ret'.body.successful + ret'.body.failed = ret'.body.total_queries]_vars

====
